---- MODULE Spec2Model ----
(***************************************************************************)
(* A model of the GTFS ingestion engine: the StringPool interning table    *)
(* (GTFS.h), the table parsers and load_feeds (gtfs_parser.cpp), the       *)
(* stop-time query and the realtime update of the addon (addon.cpp) and    *)
(* the realtime decoder (gtfs_realtime.cpp).                               *)
(*                                                                         *)
(* uint32_t values are written as the integer with the same 32-bit         *)
(* pattern: an id below 2^31 is itself, 0xFFFFFFFF is -1.                  *)
(***************************************************************************)
EXTENDS Integers, Sequences, FiniteSets, TLC

VARIABLES
    \* ---- StringPool (GTFSData::string_pool)
    str_to_id,      \* unordered_map<string, uint32_t>
    id_to_str,      \* vector<string>; element i of the vector is id_to_str[i+1]
    readers,        \* threads holding mutex_ shared
    writer,         \* thread holding mutex_ exclusively, 0 when none
    \* ---- threads calling StringPool::intern
    wpc,            \* position of each thread inside intern
    warg,           \* the argument s of the call in progress (or of the last call)
    wret,           \* what the last completed call returned
    wpath,          \* which return statement the last completed call took
    returned,       \* history: the <<s, id>> pairs intern has returned since clear()
    \* ---- load_feeds: arguments and locals
    lpc,                \* where load_feeds is: idle, next_feed, join, done, failed, crashed
    zip_buffers,        \* the archives, one per feed
    feed_ids,           \* the feed_ids argument
    merge_strategy,     \* 0 OVERWRITE, 1 SKIP, 2 STRICT
    feed_idx,
    current_feed_id,
    tasks,              \* futures of the current feed: file name -> state and stored exception
    chunks,             \* chunk_futures: the range workers of stop_times.txt
    merged_stop_times,  \* trip id -> rows, accumulated over the feeds
    load_error,         \* what() of the exception load_feeds ended with, "" when none
    \* ---- GTFSData
    agencies, routes, calendars, calendar_dates,
    stop_times, stop_times_by_stop_id,
    trips,
    realtime_trip_updates, realtime_vehicle_positions, realtime_alerts,
    \* ---- GTFSAddon::GetStopTimes
    q_config,       \* the configuration object of the last query
    q_result,       \* the rows it returned
    q_examined,     \* how many candidate rows it visited
    q_raised,       \* whether it threw a TypeError
    \* ---- GTFSAddon::UpdateRealtime and the realtime getters
    rt_args,        \* the arguments of the last UpdateRealtime call
    rt_raised,      \* whether that call threw a TypeError
    rt_held,        \* history: how many records the collections held when it began
    rt_returned,    \* what the last call of UpdateRealtime or of a realtime getter returned
    \* ---- what the caller of load_feeds has seen
    loaded_before,  \* history: the arguments and the result of each load_feeds call
                    \* that has returned
    \* ---- a function of the parser called on its own
    applied         \* the arguments of the call and, once it has returned, its result

poolVars == <<str_to_id, id_to_str, readers, writer>>
threadVars == <<wpc, warg, wret, wpath, returned>>
argVars == <<zip_buffers, feed_ids, merge_strategy>>
tableVars == <<agencies, routes, calendars, calendar_dates>>
stopTimeVars == <<chunks, merged_stop_times, stop_times, stop_times_by_stop_id>>
loadVars == <<lpc, feed_idx, current_feed_id, tasks, load_error, argVars, tableVars, stopTimeVars>>
realtimeVars == <<realtime_trip_updates, realtime_vehicle_positions, realtime_alerts>>
queryVars == <<q_config, q_result, q_examined, q_raised>>
rtCallVars == <<rt_args, rt_raised, rt_held, rt_returned>>
historyVars == <<loaded_before, applied>>
addonVars == <<trips, realtimeVars, queryVars, rtCallVars, historyVars>>
vars == <<poolVars, threadVars, loadVars, addonVars>>

-----------------------------------------------------------------------------
(* Bounds of the model *)

NumThreads == 2         \* threads calling intern concurrently
MaxPoolSlots == 4       \* no intern call starts once the id table has this many slots

PoolStrings == {"a", "b", "c"}
Threads == 1..NumThreads

-----------------------------------------------------------------------------
(* StringPool *)

NOT_FOUND == -1

EmptyMap == <<>>

Range(f) == {f[x] : x \in DOMAIN f}

\* str_to_id.count(s)
pool_has(s) == s \in DOMAIN str_to_id

\* the second str_to_id.count(s), made while holding the exclusive lock
recheck_skipped(s) == FALSE
recheck_has(s) == s \in DOMAIN str_to_id

\* static_cast<uint32_t>(id_to_str.size())
next_id_from_one == Len(id_to_str) + 1
next_id == Len(id_to_str)

\* StringPool::get
get_one_based(id) == IF id >= 1 /\ id <= Len(id_to_str) THEN id_to_str[id] ELSE ""
get(id) == IF id >= 0 /\ id < Len(id_to_str) THEN id_to_str[id + 1] ELSE ""

\* StringPool::exists
exists(s) == s \in DOMAIN str_to_id

\* StringPool::get_id
get_id(s) == IF s \in DOMAIN str_to_id THEN str_to_id[s] ELSE NOT_FOUND

InitPool ==
    /\ str_to_id = EmptyMap
    /\ id_to_str = <<>>
    /\ readers = {}
    /\ writer = 0

InitThreads ==
    /\ wpc = [w \in Threads |-> "idle"]
    /\ warg = [w \in Threads |-> ""]
    /\ wret = [w \in Threads |-> NOT_FOUND]
    /\ wpath = [w \in Threads |-> "none"]
    /\ returned = {}

\* A thread enters intern(s).
CallIntern(w, s) ==
    /\ wpc[w] = "idle"
    /\ Len(id_to_str) < MaxPoolSlots
    /\ wpc' = [wpc EXCEPT ![w] = "shared_lock"]
    /\ warg' = [warg EXCEPT ![w] = s]
    /\ wpath' = [wpath EXCEPT ![w] = "none"]
    /\ UNCHANGED <<poolVars, wret, returned, loadVars, addonVars>>

\* std::shared_lock lock(mutex_)
AcquireShared(w) ==
    /\ wpc[w] = "shared_lock"
    /\ writer = 0
    /\ readers' = readers \cup {w}
    /\ wpc' = [wpc EXCEPT ![w] = "read_check"]
    /\ UNCHANGED <<str_to_id, id_to_str, writer, warg, wret, wpath, returned, loadVars, addonVars>>

\* if (str_to_id.count(s)) return str_to_id.at(s);  and the end of the block
\* that holds the shared lock
ReadCheck(w) ==
    /\ wpc[w] = "read_check"
    /\ readers' = readers \ {w}
    /\ IF pool_has(warg[w])
       THEN /\ wret' = [wret EXCEPT ![w] = str_to_id[warg[w]]]
            /\ wpath' = [wpath EXCEPT ![w] = "read_hit"]
            /\ returned' = returned \cup {<<warg[w], str_to_id[warg[w]]>>}
            /\ wpc' = [wpc EXCEPT ![w] = "idle"]
       ELSE /\ wpc' = [wpc EXCEPT ![w] = "unique_lock"]
            /\ UNCHANGED <<wret, wpath, returned>>
    /\ UNCHANGED <<str_to_id, id_to_str, writer, warg, loadVars, addonVars>>

\* std::unique_lock lock(mutex_)
AcquireUnique(w) ==
    /\ wpc[w] = "unique_lock"
    /\ writer = 0
    /\ readers = {}
    /\ writer' = w
    /\ wpc' = [wpc EXCEPT ![w] = "write_check"]
    /\ UNCHANGED <<str_to_id, id_to_str, readers, warg, wret, wpath, returned, loadVars, addonVars>>

\* the re-check, the insertion and the return, all under the exclusive lock
WriteCheck(w) ==
    /\ wpc[w] = "write_check"
    /\ writer = w
    /\ writer' = 0
    /\ wpc' = [wpc EXCEPT ![w] = "idle"]
    /\ IF recheck_has(warg[w])
       THEN /\ wret' = [wret EXCEPT ![w] = str_to_id[warg[w]]]
            /\ wpath' = [wpath EXCEPT ![w] = "recheck_hit"]
            /\ returned' = returned \cup {<<warg[w], str_to_id[warg[w]]>>}
            /\ UNCHANGED <<str_to_id, id_to_str>>
       ELSE /\ str_to_id' = [x \in DOMAIN str_to_id \cup {warg[w]} |->
                                IF x = warg[w] THEN next_id ELSE str_to_id[x]]
            /\ id_to_str' = Append(id_to_str, warg[w])
            /\ wret' = [wret EXCEPT ![w] = next_id]
            /\ wpath' = [wpath EXCEPT ![w] = "inserted"]
            /\ returned' = returned \cup {<<warg[w], next_id>>}
    /\ UNCHANGED <<readers, warg, loadVars, addonVars>>

\* StringPool::clear.  GTFSData::clear calls it at the start of load_feeds,
\* before any thread that interns exists.
ClearPool ==
    /\ \A w \in Threads : wpc[w] = "idle"
    /\ readers = {}
    /\ writer = 0
    /\ id_to_str # <<>>
    /\ str_to_id' = EmptyMap
    /\ id_to_str' = <<>>
    /\ wpath' = [w \in Threads |-> "none"]
    /\ returned' = {}
    /\ UNCHANGED <<readers, writer, wpc, warg, wret, loadVars, addonVars>>

\* GTFSData after construction and no load_feeds call in progress
InitLoad ==
    /\ lpc = "idle"
    /\ zip_buffers = <<>>
    /\ feed_ids = <<>>
    /\ merge_strategy = 0
    /\ feed_idx = 0
    /\ current_feed_id = ""
    /\ tasks = EmptyMap
    /\ chunks = <<>>
    /\ merged_stop_times = EmptyMap
    /\ load_error = ""
    /\ agencies = EmptyMap
    /\ routes = EmptyMap
    /\ calendars = EmptyMap
    /\ calendar_dates = EmptyMap
    /\ stop_times = <<>>
    /\ stop_times_by_stop_id = EmptyMap

\* the addon after construction: no query and no realtime update made yet
InitAddon ==
    /\ trips = EmptyMap
    /\ realtime_trip_updates = <<>>
    /\ realtime_vehicle_positions = <<>>
    /\ realtime_alerts = <<>>
    /\ q_config = EmptyMap
    /\ q_result = <<>>
    /\ q_examined = 0
    /\ q_raised = FALSE
    /\ rt_args = <<>>
    /\ rt_raised = FALSE
    /\ rt_held = 0
    /\ rt_returned = [of |-> "", value |-> <<>>]
    /\ loaded_before = <<>>

\* no function of the parser is called on its own
NotApplied == applied = <<>>

InitPoolSpec == InitPool /\ InitThreads /\ InitLoad /\ InitAddon /\ NotApplied

NextPool ==
    \/ \E w \in Threads : \E s \in PoolStrings : CallIntern(w, s)
    \/ \E w \in Threads : AcquireShared(w)
    \/ \E w \in Threads : ReadCheck(w)
    \/ \E w \in Threads : AcquireUnique(w)
    \/ \E w \in Threads : WriteCheck(w)
    \/ ClearPool

SpecPool == InitPoolSpec /\ [][NextPool]_vars

-----------------------------------------------------------------------------
(* Claims about the StringPool *)

\* C1: between two clear() calls intern is a function of its argument and
\* injective, and get inverts it: any two pairs <<s, id>> it has returned
\* have equal strings exactly when they have equal ids, and get(id) = s.
C1_InternIsInjectiveFunction ==
    \A p \in returned :
        /\ get(p[2]) = p[1]
        /\ \A q \in returned : (p[1] = q[1]) <=> (p[2] = q[2])

\* two strings have been interned and one of them has been returned twice
C1_Witness ==
    /\ Cardinality(returned) >= 2
    /\ \E w \in Threads : wpath[w] = "read_hit"

\* C2: threads racing to intern the same new string get one id for it, and
\* the string takes exactly one slot of the id table.
C2_RaceGivesOneId ==
    /\ \A i, j \in 1..Len(id_to_str) : id_to_str[i] = id_to_str[j] => i = j
    /\ \A v, w \in Threads :
          (/\ wpath[v] # "none" /\ wpath[w] # "none"
           /\ warg[v] = warg[w]) => wret[v] = wret[w]
    /\ \A w \in Threads :
          wpath[w] # "none" =>
              Cardinality({i \in 1..Len(id_to_str) : id_to_str[i] = warg[w]}) = 1

\* both threads missed on the read path for the same string; one inserted it
\* and the other found it on the re-check
C2_Witness ==
    \E v, w \in Threads :
        /\ v # w
        /\ warg[v] = warg[w]
        /\ wpath[v] = "inserted"
        /\ wpath[w] = "recheck_hit"

\* C3 (state part): the assigned ids are exactly 0..n-1 for the n interned
\* strings, slot i holds the string with id i, and get_id of a string never
\* interned gives NOT_FOUND, which is no assigned id.
C3_IdsDense ==
    /\ Range(str_to_id) = 0..(Cardinality(DOMAIN str_to_id) - 1)
    /\ Len(id_to_str) = Cardinality(DOMAIN str_to_id)
    /\ \A s \in DOMAIN str_to_id : get(str_to_id[s]) = s
    /\ \A s \in PoolStrings \ DOMAIN str_to_id : get_id(s) = NOT_FOUND
    /\ NOT_FOUND \notin Range(str_to_id)

\* C3 (step part): a step that is not clear() keeps every assigned id and
\* gives a new string the id that follows the largest one assigned so far.
C3_IdsStable ==
    \/ str_to_id' = EmptyMap
    \/ /\ \A s \in DOMAIN str_to_id :
             s \in DOMAIN str_to_id' /\ str_to_id'[s] = str_to_id[s]
       /\ \A s \in DOMAIN str_to_id' \ DOMAIN str_to_id :
             str_to_id'[s] = Cardinality(DOMAIN str_to_id)

\* C3: ids are dense from 0, assigned in increasing order and never reused
\* or reassigned between two clear() calls; a miss is NOT_FOUND.
C3_IdsMonotonicFromZero == []C3_IdsDense /\ [][C3_IdsStable]_vars

\* all three strings are interned and one was looked up again
C3_Witness ==
    /\ Len(id_to_str) = 3
    /\ \E w \in Threads : wpath[w] = "read_hit" /\ wret[w] = 2

-----------------------------------------------------------------------------
(* Maps (std::unordered_map) *)

\* m[k] = v
MapPut(m, k, v) == [x \in DOMAIN m \cup {k} |-> IF x = k THEN v ELSE m[x]]

\* m[k], which inserts an empty inner map when k is absent
MapEnsure(m, k) == IF k \in DOMAIN m THEN m ELSE MapPut(m, k, EmptyMap)

\* m[k1][k2] = v
MapPut2(m, k1, k2, v) == MapPut(m, k1, MapPut(MapEnsure(m, k1)[k1], k2, v))

\* m[k1].count(k2), which inserts m[k1] when absent but counts nothing then
MapCount2(m, k1, k2) == k1 \in DOMAIN m /\ k2 \in DOMAIN m[k1]

SeqsUpTo(S, n) == UNION {[1..k -> S] : k \in 0..n}

-----------------------------------------------------------------------------
(* The table parsers with a primary key.  A parser returns the table and the *)
(* what() of the exception it threw, "" when it returned normally.           *)

OVERWRITE == 0
SKIP == 1
STRICT == 2

MergeStrategies == {OVERWRITE, SKIP, STRICT}

\* if (merge_strategy == 1 && table[feed_id].count(key)) continue;
skips_never(strategy, present) == FALSE
skips(strategy, present) == strategy = 1 /\ present

\* if (merge_strategy == 2 && table[feed_id].count(key)) throw ...
throws(strategy, present) == strategy = 2 /\ present

\* the loop over the data lines of routes.txt
RECURSIVE parse_routes_lines(_, _, _, _)
parse_routes_lines(table, lines, strategy, feed_id) ==
    IF lines = <<>> THEN [table |-> table, error |-> ""]
    ELSE LET row == Head(lines)
             r == [feed_id |-> feed_id, route_id |-> row.route_id,
                   route_long_name |-> row.route_long_name]
             present == MapCount2(table, feed_id, r.route_id)
         IN  IF skips(strategy, present)
             THEN parse_routes_lines(table, Tail(lines), strategy, feed_id)
             ELSE IF throws(strategy, present)
             THEN [table |-> table, error |-> "Duplicate route: " \o r.route_id]
             ELSE parse_routes_lines(MapPut2(table, feed_id, r.route_id, r),
                                     Tail(lines), strategy, feed_id)

\* parse_routes; data.routes[feed_id].reserve(..) inserts routes[feed_id]
parse_routes(table, lines, strategy, feed_id) ==
    parse_routes_lines(MapEnsure(table, feed_id), lines, strategy, feed_id)

\* the loop over the data lines of agency.txt; the key is agency_id, or
\* agency_name when the agency_id cell is empty
RECURSIVE parse_agency_lines(_, _, _, _)
parse_agency_lines(table, lines, strategy, feed_id) ==
    IF lines = <<>> THEN [table |-> table, error |-> ""]
    ELSE LET row == Head(lines)
             key == IF row.agency_id # "" THEN row.agency_id ELSE row.agency_name
             a == [feed_id |-> feed_id, agency_id |-> key,
                   agency_name |-> row.agency_name]
             present == MapCount2(table, feed_id, key)
         IN  IF skips(strategy, present)
             THEN parse_agency_lines(table, Tail(lines), strategy, feed_id)
             ELSE IF throws(strategy, present)
             THEN [table |-> table, error |-> "Duplicate agency: " \o key]
             ELSE parse_agency_lines(MapPut2(table, feed_id, key, a),
                                     Tail(lines), strategy, feed_id)

parse_agency(table, lines, strategy, feed_id) ==
    parse_agency_lines(MapEnsure(table, feed_id), lines, strategy, feed_id)

\* parse_calendar; calendars[feed_id] is inserted by the first data line
RECURSIVE parse_calendar(_, _, _, _)
parse_calendar(table, lines, strategy, feed_id) ==
    IF lines = <<>> THEN [table |-> table, error |-> ""]
    ELSE LET row == Head(lines)
             c == [feed_id |-> feed_id, service_id |-> row.service_id,
                   monday |-> row.monday]
             present == MapCount2(table, feed_id, c.service_id)
         IN  IF skips(strategy, present)
             THEN parse_calendar(table, Tail(lines), strategy, feed_id)
             ELSE IF throws(strategy, present)
             THEN [table |-> table, error |-> "Duplicate calendar: " \o c.service_id]
             ELSE parse_calendar(MapPut2(table, feed_id, c.service_id, c),
                                 Tail(lines), strategy, feed_id)

\* parse_calendar_dates: data.calendar_dates[feed_id][service_id][date] = exc,
\* whatever merge_strategy is
RECURSIVE parse_calendar_dates(_, _, _, _)
parse_calendar_dates(table, lines, strategy, feed_id) ==
    IF lines = <<>> THEN [table |-> table, error |-> ""]
    ELSE LET row == Head(lines)
             of_feed == MapEnsure(table, feed_id)[feed_id]
         IN  parse_calendar_dates(
                 MapPut(table, feed_id,
                        MapPut2(of_feed, row.service_id, row.date, row.exception_type)),
                 Tail(lines), strategy, feed_id)

-----------------------------------------------------------------------------
(* Inputs of load_feeds *)

MaxLines == 2       \* data lines of one file

RouteLines == [route_id : {"R1", "R2"}, route_long_name : {"x", "y"}]
AgencyLines == [agency_id : {"", "A1"}, agency_name : {"A1", "N"}]
CalendarLines == [service_id : {"S1", "S2"}, monday : BOOLEAN]
CalendarDateLines ==
    [service_id : {"S1"}, date : {"20240108", "20240109"}, exception_type : {1, 2}]

KeyedFiles == {"agency.txt", "routes.txt", "calendar.txt", "calendar_dates.txt"}

LinesOf(file) ==
    CASE file = "agency.txt" -> AgencyLines
      [] file = "routes.txt" -> RouteLines
      [] file = "calendar.txt" -> CalendarLines
      [] file = "calendar_dates.txt" -> CalendarDateLines

\* an archive miniz cannot open
BadArchive == [ok |-> FALSE, files |-> EmptyMap]

\* the archives holding the one target file `file`
ArchivesWith(file) ==
    {[ok |-> TRUE, files |-> (file :> c)] : c \in SeqsUpTo(LinesOf(file), MaxLines)}
        \cup {BadArchive}

\* how many feeds a call loads
FeedCounts == {1, 2}

\* the feed_ids argument: none given (the feed's index is its id), or the
\* same id for every feed
FeedIdLists == {<<>>, <<"F", "F">>}

-----------------------------------------------------------------------------
(* load_feeds *)

\* StringPool::intern as one step: the result of the steps above, which the
\* mutex makes atomic for the other threads
InternedMap(map, s) == IF s \in DOMAIN map THEN map ELSE MapPut(map, s, Cardinality(DOMAIN map))
InternedVec(map, vec, s) == IF s \in DOMAIN map THEN vec ELSE Append(vec, s)

\* load_feeds, were clear() to leave the realtime collections alone
LoadFeedsKeepingRealtime(bufs, ids, strategy) ==
    /\ lpc = "idle"
    /\ zip_buffers' = bufs
    /\ feed_ids' = ids
    /\ merge_strategy' = strategy
    /\ str_to_id' = EmptyMap
    /\ id_to_str' = <<>>
    /\ agencies' = EmptyMap
    /\ routes' = EmptyMap
    /\ calendars' = EmptyMap
    /\ calendar_dates' = EmptyMap
    /\ stop_times' = <<>>
    /\ stop_times_by_stop_id' = EmptyMap
    /\ merged_stop_times' = EmptyMap
    /\ chunks' = <<>>
    /\ tasks' = EmptyMap
    /\ feed_idx' = 0
    /\ current_feed_id' = ""
    /\ load_error' = ""
    /\ lpc' = "next_feed"
    /\ trips' = EmptyMap
    /\ UNCHANGED <<readers, writer, threadVars, realtimeVars, queryVars, rtCallVars,
                   historyVars>>

\* data.clear() and the declarations of the locals
LoadFeeds(bufs, ids, strategy) ==
    /\ lpc = "idle"
    /\ zip_buffers' = bufs
    /\ feed_ids' = ids
    /\ merge_strategy' = strategy
    /\ str_to_id' = EmptyMap
    /\ id_to_str' = <<>>
    /\ agencies' = EmptyMap
    /\ routes' = EmptyMap
    /\ calendars' = EmptyMap
    /\ calendar_dates' = EmptyMap
    /\ stop_times' = <<>>
    /\ stop_times_by_stop_id' = EmptyMap
    /\ merged_stop_times' = EmptyMap
    /\ chunks' = <<>>
    /\ tasks' = EmptyMap
    /\ feed_idx' = 0
    /\ current_feed_id' = ""
    /\ load_error' = ""
    /\ lpc' = "next_feed"
    /\ trips' = EmptyMap
    /\ realtime_trip_updates' = <<>>
    /\ realtime_vehicle_positions' = <<>>
    /\ realtime_alerts' = <<>>
    /\ UNCHANGED <<readers, writer, threadVars, queryVars, rtCallVars, historyVars>>

\* The top of the feed loop up to the launch of the tasks: the feed's id is
\* interned, the archive opened (a feed whose archive cannot be opened is
\* skipped) and one task started per target file found in it.
BeginFeed ==
    /\ lpc = "next_feed"
    /\ feed_idx < Len(zip_buffers)
    /\ LET id == IF feed_idx < Len(feed_ids) THEN feed_ids[feed_idx + 1]
                 ELSE ToString(feed_idx)
           zip == zip_buffers[feed_idx + 1]
       IN  /\ current_feed_id' = id
           /\ str_to_id' = InternedMap(str_to_id, id)
           /\ id_to_str' = InternedVec(str_to_id, id_to_str, id)
           /\ feed_idx' = feed_idx + 1
           /\ IF zip.ok
              THEN /\ tasks' = [f \in DOMAIN zip.files |->
                                   [state |-> "running", error |-> ""]]
                   /\ lpc' = "join"
              ELSE /\ tasks' = EmptyMap
                   /\ lpc' = "next_feed"
    /\ chunks' = <<>>
    /\ UNCHANGED <<addonVars, readers, writer, threadVars, argVars, tableVars, load_error,
                   merged_stop_times, stop_times, stop_times_by_stop_id>>

FileOf(file) == zip_buffers[feed_idx].files[file]

Finished(result) == [state |-> IF result.error = "" THEN "done" ELSE "threw",
                     error |-> result.error]

TaskRunning(file) == file \in DOMAIN tasks /\ tasks[file].state = "running"

\* process_file(parse_agency, "agency.txt") in its own thread
AgencyTask ==
    /\ lpc = "join"
    /\ TaskRunning("agency.txt")
    /\ LET res == parse_agency(agencies, FileOf("agency.txt"), merge_strategy, current_feed_id)
       IN  /\ agencies' = res.table
           /\ tasks' = [tasks EXCEPT !["agency.txt"] = Finished(res)]
    /\ UNCHANGED <<addonVars, poolVars, threadVars, lpc, feed_idx, current_feed_id, load_error,
                   argVars, routes, calendars, calendar_dates, stopTimeVars>>

\* process_file(parse_routes, "routes.txt") in its own thread
RoutesTask ==
    /\ lpc = "join"
    /\ TaskRunning("routes.txt")
    /\ LET res == parse_routes(routes, FileOf("routes.txt"), merge_strategy, current_feed_id)
       IN  /\ routes' = res.table
           /\ tasks' = [tasks EXCEPT !["routes.txt"] = Finished(res)]
    /\ UNCHANGED <<addonVars, poolVars, threadVars, lpc, feed_idx, current_feed_id, load_error,
                   argVars, agencies, calendars, calendar_dates, stopTimeVars>>

\* process_file(parse_calendar, "calendar.txt") in its own thread
CalendarTask ==
    /\ lpc = "join"
    /\ TaskRunning("calendar.txt")
    /\ LET res == parse_calendar(calendars, FileOf("calendar.txt"), merge_strategy, current_feed_id)
       IN  /\ calendars' = res.table
           /\ tasks' = [tasks EXCEPT !["calendar.txt"] = Finished(res)]
    /\ UNCHANGED <<addonVars, poolVars, threadVars, lpc, feed_idx, current_feed_id, load_error,
                   argVars, agencies, routes, calendar_dates, stopTimeVars>>

\* process_file(parse_calendar_dates, "calendar_dates.txt") in its own thread
CalendarDatesTask ==
    /\ lpc = "join"
    /\ TaskRunning("calendar_dates.txt")
    /\ LET res == parse_calendar_dates(calendar_dates, FileOf("calendar_dates.txt"),
                                       merge_strategy, current_feed_id)
       IN  /\ calendar_dates' = res.table
           /\ tasks' = [tasks EXCEPT !["calendar_dates.txt"] = Finished(res)]
    /\ UNCHANGED <<addonVars, poolVars, threadVars, lpc, feed_idx, current_feed_id, load_error,
                   argVars, agencies, routes, calendars, stopTimeVars>>

\* the order in which the futures are joined
JoinOrder == <<"agency.txt", "routes.txt", "calendar.txt", "calendar_dates.txt",
               "stop_times.txt">>

ThrewNone == {}
Threw == {i \in 1..Len(JoinOrder) :
             JoinOrder[i] \in DOMAIN tasks /\ tasks[JoinOrder[i]].state = "threw"}

\* the end of a feed's iteration, were it not to wait for the futures
JoinFeedWithoutWaiting ==
    /\ lpc = "join"
    /\ IF Threw = {}
       THEN /\ lpc' = "next_feed"
            /\ load_error' = ""
       ELSE /\ lpc' = "failed"
            /\ load_error' = tasks[JoinOrder[CHOOSE i \in Threw : \A j \in Threw : i <= j]].error
    /\ tasks' = EmptyMap
    /\ chunks' = <<>>
    /\ UNCHANGED <<addonVars, poolVars, threadVars, feed_idx, current_feed_id, argVars, tableVars,
                   merged_stop_times, stop_times, stop_times_by_stop_id>>

\* f.get() for every future of the feed.  get() rethrows what the task threw;
\* the destructors of the other futures then wait for their tasks, so the
\* iteration is left, either way, only when every task has finished.
JoinFeed ==
    /\ lpc = "join"
    /\ \A f \in DOMAIN tasks : tasks[f].state \in {"done", "threw"}
    /\ IF Threw = {}
       THEN /\ lpc' = "next_feed"
            /\ load_error' = ""
       ELSE /\ lpc' = "failed"
            /\ load_error' = tasks[JoinOrder[CHOOSE i \in Threw : \A j \in Threw : i <= j]].error
    /\ tasks' = EmptyMap
    /\ chunks' = <<>>
    /\ UNCHANGED <<addonVars, poolVars, threadVars, feed_idx, current_feed_id, argVars, tableVars,
                   merged_stop_times, stop_times, stop_times_by_stop_id>>

-----------------------------------------------------------------------------
(* stop_times.txt: the byte ranges of the range workers *)

MaxHardwareThreads == 8     \* if (thread_count > 8) thread_count = 8;

\* lengths in bytes of a data line, its line break included
LineLens == {8, 30}

StopTimeLines ==
    { [trip_id |-> "T1", stop_sequence |-> 2, stop_id |-> "P1"],
      [trip_id |-> "T1", stop_sequence |-> 1, stop_id |-> "P2"],
      [trip_id |-> "T2", stop_sequence |-> 1, stop_id |-> "P1"],
      [trip_id |-> "T2", stop_sequence |-> 1, stop_id |-> "P2"] }

\* what a worker reads when its range runs past the end of the buffer
GarbageLine == [trip_id |-> "?", stop_sequence |-> 0, stop_id |-> "?"]

StopTimeArchives ==
    {[ok |-> TRUE, files |-> ("stop_times.txt" :> c)] :
        c \in SeqsUpTo(StopTimeLines, MaxLines)} \cup {BadArchive}

Min(S) == CHOOSE x \in S : \A y \in S : x <= y

\* offsets, counted from start_pos, of the byte after each line
RECURSIVE LineEnds(_)
LineEnds(lens) ==
    IF lens = <<>> THEN <<>>
    ELSE LET rest == LineEnds(SubSeq(lens, 1, Len(lens) - 1))
         IN  Append(rest, (IF rest = <<>> THEN 0 ELSE rest[Len(rest)]) + lens[Len(lens)])

\* The loop over i that cuts [start_pos, content_size) into ranges.  Offsets
\* count from start_pos and size is content_size - start_pos.  When
\* current_pos + chunk_size lies past the buffer, content_size - end_pos wraps
\* around and memchr reads past the buffer: "used" when the range it ends is
\* handed to a worker, "discarded" when the loop breaks right after.
RECURSIVE chunk_loop(_, _, _, _, _)
chunk_loop(i, current_pos, ends, thread_count, acc) ==
    LET size == ends[Len(ends)]
        chunk_size == size \div thread_count
        nominal == current_pos + chunk_size
        last == (i = thread_count - 1)
        past == ~last /\ nominal > size
        breaks == {e \in Range(ends) : e > nominal}
        end_pos == IF last THEN size
                   ELSE IF past THEN size + 1
                   ELSE IF breaks # {} THEN Min(breaks) ELSE size
    IN  IF i >= thread_count THEN acc
        ELSE IF current_pos >= size
        THEN [acc EXCEPT !.overread =
                  IF past /\ acc.overread = "none" THEN "discarded" ELSE acc.overread]
        ELSE chunk_loop(i + 1, end_pos, ends, thread_count,
                        [ranges |-> Append(acc.ranges, <<current_pos, end_pos>>),
                         overread |-> IF past THEN "used" ELSE acc.overread])

chunk_ranges(lens, thread_count) ==
    chunk_loop(0, 0, LineEnds(lens), thread_count, [ranges |-> <<>>, overread |-> "none"])

\* the lines that start inside a range
LinesIn(lines, lens, range) ==
    LET ends == LineEnds(lens)
        start(k) == IF k = 1 THEN 0 ELSE ends[k - 1]
        idx == [k \in 1..Len(lines) |-> k]
        mine == SelectSeq(idx, LAMBDA k : range[1] <= start(k) /\ start(k) < range[2])
    IN  [j \in 1..Len(mine) |-> lines[mine[j]]]

\* a range worker before its first line
Worker(lines) == [lines |-> lines, next |-> 1, phase |-> "trip", trip |-> 0, vec |-> <<>>]

\* The stop_times lambda up to the launch of the range workers.  A file with
\* no data byte after the header starts none.
LaunchChunksWith(thread_counts, line_lens) ==
    /\ lpc = "join"
    /\ TaskRunning("stop_times.txt")
    /\ LET lines == FileOf("stop_times.txt")
       IN  IF lines = <<>>
           THEN /\ tasks' = [tasks EXCEPT !["stop_times.txt"].state = "done"]
                /\ UNCHANGED <<chunks, lpc>>
           ELSE \E thread_count \in thread_counts :
                \E lens \in [1..Len(lines) -> line_lens] :
                    LET plan == chunk_ranges(lens, thread_count)
                        n == Len(plan.ranges)
                        parts == [k \in 1..n |-> LinesIn(lines, lens, plan.ranges[k])]
                    IN  \/ /\ plan.overread # "used"
                           /\ chunks' = [k \in 1..n |-> Worker(parts[k])]
                           /\ tasks' = [tasks EXCEPT !["stop_times.txt"].state = "parsing"]
                           /\ UNCHANGED lpc
                        \/ /\ plan.overread = "used"
                           /\ \E extra \in {<<>>, <<GarbageLine>>} :
                                 chunks' = [k \in 1..n |->
                                     Worker(IF k = n THEN parts[k] \o extra ELSE parts[k])]
                           /\ tasks' = [tasks EXCEPT !["stop_times.txt"].state = "parsing"]
                           /\ UNCHANGED lpc
                        \/ /\ plan.overread # "none"
                           /\ lpc' = "crashed"
                           /\ UNCHANGED <<chunks, tasks>>
    /\ UNCHANGED <<addonVars, poolVars, threadVars, feed_idx, current_feed_id, load_error, argVars,
                   tableVars, merged_stop_times, stop_times, stop_times_by_stop_id>>

\* std::thread::hardware_concurrency() capped at 8, and files of any line
\* lengths
LaunchChunks == LaunchChunksWith(1..MaxHardwareThreads, LineLens)

\* One step of parse_stop_times_chunk in range worker k: intern the trip_id
\* cell, or intern the stop_id cell and push the row.
ChunkStep(k) ==
    /\ lpc = "join"
    /\ k \in 1..Len(chunks)
    /\ chunks[k].next <= Len(chunks[k].lines)
    /\ LET w == chunks[k]
           line == w.lines[w.next]
       IN  IF w.phase = "trip"
           THEN /\ str_to_id' = InternedMap(str_to_id, line.trip_id)
                /\ id_to_str' = InternedVec(str_to_id, id_to_str, line.trip_id)
                /\ chunks' = [chunks EXCEPT ![k].phase = "stop",
                                            ![k].trip = str_to_id'[line.trip_id]]
           ELSE /\ str_to_id' = InternedMap(str_to_id, line.stop_id)
                /\ id_to_str' = InternedVec(str_to_id, id_to_str, line.stop_id)
                /\ chunks' = [chunks EXCEPT
                       ![k].phase = "trip",
                       ![k].next = w.next + 1,
                       ![k].vec = Append(w.vec,
                           [feed_id |-> str_to_id[current_feed_id],
                            trip_id |-> w.trip,
                            stop_id |-> str_to_id'[line.stop_id],
                            stop_sequence |-> line.stop_sequence])]
    /\ UNCHANGED <<addonVars, readers, writer, threadVars, lpc, feed_idx, current_feed_id, tasks,
                   load_error, argVars, tableVars, merged_stop_times, stop_times,
                   stop_times_by_stop_id>>

-----------------------------------------------------------------------------
(* stop_times.txt: grouping, sorting, merging *)

\* a.stop_sequence < b.stop_sequence
seq_less(a, b) == a.stop_sequence < b.stop_sequence

\* the comparator of the final sort
stop_time_less_trip_only(a, b) == a.trip_id < b.trip_id
stop_time_less(a, b) ==
    IF a.trip_id # b.trip_id THEN a.trip_id < b.trip_id
    ELSE a.stop_sequence < b.stop_sequence

Less(order, a, b) == IF order = "seq" THEN seq_less(a, b) ELSE stop_time_less(a, b)

RemoveAt(s, i) == SubSeq(s, 1, i - 1) \o SubSeq(s, i + 1, Len(s))

\* std::sort: every arrangement of s in which no element is less than an
\* earlier one (the order of equivalent elements is unspecified)
RECURSIVE SortedArrangements(_, _)
SortedArrangements(s, order) ==
    IF s = <<>> THEN {<<>>}
    ELSE UNION { {<<s[i]>> \o t : t \in SortedArrangements(RemoveAt(s, i), order)} :
                 i \in {i \in 1..Len(s) : \A j \in 1..Len(s) : ~Less(order, s[j], s[i])} }

RECURSIVE Concat(_)
Concat(ss) == IF ss = <<>> THEN <<>> ELSE Head(ss) \o Concat(Tail(ss))

\* current_feed_stop_times: the rows of all ranges, in range order, by trip id
GroupsOf(rows) ==
    [tid \in {rows[i].trip_id : i \in 1..Len(rows)} |->
        SelectSeq(rows, LAMBDA st : st.trip_id = tid)]

\* The end of the stop_times lambda: wait for the range workers, group their
\* rows by trip id and merge each group into merged_stop_times.  The groups
\* are visited in the map's order, which is unspecified; under STRICT the
\* first group whose trip id is present throws.
MergeStopTimes ==
    /\ lpc = "join"
    /\ "stop_times.txt" \in DOMAIN tasks
    /\ tasks["stop_times.txt"].state = "parsing"
    /\ \A k \in 1..Len(chunks) : chunks[k].next > Len(chunks[k].lines)
    /\ LET groups == GroupsOf(Concat([k \in 1..Len(chunks) |-> chunks[k].vec]))
           present == {tid \in DOMAIN groups : tid \in DOMAIN merged_stop_times}
           absent == DOMAIN groups \ present
       IN  \E sorted \in [DOMAIN groups ->
                             UNION {SortedArrangements(groups[t], "seq") : t \in DOMAIN groups}] :
               /\ \A t \in DOMAIN groups : sorted[t] \in SortedArrangements(groups[t], "seq")
               /\ \/ /\ \E t \in present : throws(merge_strategy, TRUE)
                     /\ \E tid \in present : \E before \in SUBSET absent :
                           /\ merged_stop_times' =
                                 [t \in DOMAIN merged_stop_times \cup before |->
                                     IF t \in before THEN sorted[t] ELSE merged_stop_times[t]]
                           /\ tasks' = [tasks EXCEPT !["stop_times.txt"] =
                                 [state |-> "threw",
                                  error |-> "Duplicate trip_id in stop_times: " \o get(tid)]]
                  \/ /\ ~ \E t \in present : throws(merge_strategy, TRUE)
                     /\ merged_stop_times' =
                           [t \in DOMAIN merged_stop_times \cup DOMAIN groups |->
                               IF t \in DOMAIN groups
                                      /\ ~skips(merge_strategy, t \in DOMAIN merged_stop_times)
                               THEN sorted[t] ELSE merged_stop_times[t]]
                     /\ tasks' = [tasks EXCEPT !["stop_times.txt"].state = "done"]
    /\ UNCHANGED <<addonVars, poolVars, threadVars, lpc, feed_idx, current_feed_id, load_error,
                   argVars, tableVars, chunks, stop_times, stop_times_by_stop_id>>

-----------------------------------------------------------------------------
(* load_feeds: the steps after the feed loop *)

\* data.stop_times_by_stop_id[stop_id].push_back(i)
index_push_from_one(index, stop_id, i) ==
    MapPut(index, stop_id,
           Append(IF stop_id \in DOMAIN index THEN index[stop_id] ELSE <<>>, i + 1))
index_push(index, stop_id, i) ==
    MapPut(index, stop_id,
           Append(IF stop_id \in DOMAIN index THEN index[stop_id] ELSE <<>>, i))

\* for (size_t i = 0; i < data.stop_times.size(); ++i), from position i on
RECURSIVE index_from(_, _, _)
index_from(index, rows, i) ==
    IF i >= Len(rows) THEN index
    ELSE index_from(index_push(index, rows[i + 1].stop_id, i), rows, i + 1)

\* the groups of merged_stop_times one after another (in the order of their
\* keys here: the sort that follows does not depend on it)
RECURSIVE ConcatGroups(_, _)
ConcatGroups(m, keys) ==
    IF keys = {} THEN <<>>
    ELSE LET k == Min(keys) IN m[k] \o ConcatGroups(m, keys \ {k})

\* "All feeds loaded. Finalizing data...": concatenate, sort, index.
Finalize ==
    /\ lpc = "next_feed"
    /\ feed_idx >= Len(zip_buffers)
    /\ \E sorted \in SortedArrangements(
                        ConcatGroups(merged_stop_times, DOMAIN merged_stop_times), "final") :
           /\ stop_times' = sorted
           /\ stop_times_by_stop_id' = index_from(stop_times_by_stop_id, sorted, 0)
    /\ lpc' = "done"
    /\ UNCHANGED <<addonVars, poolVars, threadVars, feed_idx, current_feed_id, tasks, load_error,
                   argVars, tableVars, chunks, merged_stop_times>>

-----------------------------------------------------------------------------
(* Specifications of load_feeds *)

\* loads of archives that hold one table with a primary key
NextMerge ==
    \/ /\ lpc = "idle"
       /\ \E file \in KeyedFiles : \E n \in FeedCounts :
          \E bufs \in [1..n -> ArchivesWith(file)] :
          \E ids \in FeedIdLists : \E strategy \in MergeStrategies :
              LoadFeeds(bufs, ids, strategy)
    \/ BeginFeed
    \/ AgencyTask
    \/ RoutesTask
    \/ CalendarTask
    \/ CalendarDatesTask
    \/ JoinFeed
    \/ Finalize

SpecMerge == InitPoolSpec /\ [][NextMerge]_vars

\* loads of archives that hold stop_times.txt
NextStopTimes ==
    \/ /\ lpc = "idle"
       /\ \E n \in FeedCounts : \E bufs \in [1..n -> StopTimeArchives] :
          \E ids \in FeedIdLists : \E strategy \in MergeStrategies :
              LoadFeeds(bufs, ids, strategy)
    \/ BeginFeed
    \/ LaunchChunks
    \/ \E k \in 1..MaxHardwareThreads : ChunkStep(k)
    \/ MergeStopTimes
    \/ JoinFeed
    \/ Finalize

SpecStopTimes == InitPoolSpec /\ [][NextStopTimes]_vars

-----------------------------------------------------------------------------
(* Properties of load_feeds *)

Max(S) == CHOOSE x \in S : \A y \in S : x >= y

Readable(i, file) == zip_buffers[i].ok /\ file \in DOMAIN zip_buffers[i].files

\* the data lines of `file` in the order one load reads them
LoadedLines(file) ==
    Concat([i \in 1..Len(zip_buffers) |->
               IF Readable(i, file) THEN zip_buffers[i].files[file] ELSE <<>>])

\* the identifier under which the i-th feed is loaded
FeedIdOf(i) == IF i - 1 < Len(feed_ids) THEN feed_ids[i] ELSE ToString(i - 1)

\* the data lines of `file` loaded under the feed identifier fid
LinesUnder(file, fid) ==
    Concat([i \in 1..Len(zip_buffers) |->
               IF Readable(i, file) /\ FeedIdOf(i) = fid
               THEN zip_buffers[i].files[file] ELSE <<>>])

\* C4: after a load that completed without error, data.stop_times is sorted
\* by interned trip_id and, for equal trip ids, by stop_sequence.
C4_StopTimesSorted ==
    lpc = "done" =>
        \A i \in 1..(Len(stop_times) - 1) :
            /\ stop_times[i].trip_id <= stop_times[i + 1].trip_id
            /\ stop_times[i].trip_id = stop_times[i + 1].trip_id
                   => stop_times[i].stop_sequence <= stop_times[i + 1].stop_sequence

\* two feeds were loaded, one of them lists a trip's stops in falling order of
\* stop_sequence, and the result holds rows of two trips
C4_Witness ==
    /\ lpc = "done"
    /\ Len(zip_buffers) = 2
    /\ Len(stop_times) >= 3
    /\ \E i \in 1..2 :
          /\ Readable(i, "stop_times.txt")
          /\ LET lines == zip_buffers[i].files["stop_times.txt"]
             IN  /\ Len(lines) = 2
                 /\ lines[1].trip_id = lines[2].trip_id
                 /\ lines[1].stop_sequence > lines[2].stop_sequence
    /\ \E i, j \in 1..Len(stop_times) : stop_times[i].trip_id # stop_times[j].trip_id
    /\ \E i \in 1..(Len(stop_times) - 1) :
          /\ stop_times[i].trip_id = stop_times[i + 1].trip_id
          /\ stop_times[i].stop_sequence < stop_times[i + 1].stop_sequence

\* C5: after a load completed, the index entry of every row's stop_id holds
\* the row's position.
C5_IndexHoldsEveryPosition ==
    lpc = "done" =>
        \A p \in 1..Len(stop_times) :
            /\ stop_times[p].stop_id \in DOMAIN stop_times_by_stop_id
            /\ (p - 1) \in Range(stop_times_by_stop_id[stop_times[p].stop_id])

\* a stop with two rows, the first row of the array among the indexed ones
C5_Witness ==
    /\ lpc = "done"
    /\ Len(stop_times) >= 3
    /\ \E sid \in DOMAIN stop_times_by_stop_id : Len(stop_times_by_stop_id[sid]) >= 2
    /\ \E sid \in DOMAIN stop_times_by_stop_id : stop_times_by_stop_id[sid][1] = 0

KeyOfLine(file, line) ==
    CASE file = "agency.txt" ->
             IF line.agency_id # "" THEN line.agency_id ELSE line.agency_name
      [] file = "routes.txt" -> line.route_id
      [] file = "calendar.txt" -> line.service_id

TableOf(file) ==
    CASE file = "agency.txt" -> agencies
      [] file = "routes.txt" -> routes
      [] file = "calendar.txt" -> calendars

\* the record rec holds the cells of the line
HoldsLine(file, rec, line) ==
    CASE file = "agency.txt" -> rec.agency_name = line.agency_name
      [] file = "routes.txt" -> rec.route_long_name = line.route_long_name
      [] file = "calendar.txt" -> rec.monday = line.monday

DuplicateMessage(file) ==
    CASE file = "agency.txt" -> "Duplicate agency: "
      [] file = "routes.txt" -> "Duplicate route: "
      [] file = "calendar.txt" -> "Duplicate calendar: "

\* where the key K stands in the lines
PlacesOf(file, lines, K) == {i \in 1..Len(lines) : KeyOfLine(file, lines[i]) = K}

TwiceIn(file, lines) ==
    {K \in {KeyOfLine(file, lines[i]) : i \in 1..Len(lines)} :
        Cardinality(PlacesOf(file, lines, K)) >= 2}

\* C6: a primary key K loaded twice in one load: under SKIP the stored record
\* is the first one seen, under OVERWRITE the last one seen, and under STRICT
\* the load raises an error whose message names K.
C6_KeyLoadedTwice ==
    /\ lpc = "done" =>
          \A file \in {"agency.txt", "routes.txt", "calendar.txt"} :
              LET lines == LoadedLines(file)
              IN  \A K \in TwiceIn(file, lines) :
                      /\ merge_strategy # STRICT
                      /\ \A f \in DOMAIN TableOf(file) :
                             K \in DOMAIN TableOf(file)[f] =>
                                 HoldsLine(file, TableOf(file)[f][K],
                                     lines[IF merge_strategy = SKIP
                                           THEN Min(PlacesOf(file, lines, K))
                                           ELSE Max(PlacesOf(file, lines, K))])
    /\ lpc = "failed" =>
          \E file \in {"agency.txt", "routes.txt", "calendar.txt"} :
              \E K \in TwiceIn(file, LoadedLines(file)) :
                  load_error = DuplicateMessage(file) \o K

DefinesR1(i) ==
    /\ Readable(i, "routes.txt")
    /\ \E j \in 1..Len(zip_buffers[i].files["routes.txt"]) :
          zip_buffers[i].files["routes.txt"][j].route_id = "R1"

\* C7: two feeds of one load both define route_id "R1": under OVERWRITE exactly
\* one route "R1" remains and it is the second feed's; under STRICT the load
\* raises an error (that names a route).
C7_TwoFeedsDefineR1 ==
    (Len(zip_buffers) = 2 /\ DefinesR1(1) /\ DefinesR1(2)) =>
        /\ (lpc = "done" /\ merge_strategy = OVERWRITE) =>
              LET second == zip_buffers[2].files["routes.txt"]
                  its == second[Max(PlacesOf("routes.txt", second, "R1"))]
                  holders == {f \in DOMAIN routes : "R1" \in DOMAIN routes[f]}
              IN  /\ Cardinality(holders) = 1
                  /\ \A f \in holders :
                         routes[f]["R1"].route_long_name = its.route_long_name
        /\ merge_strategy = STRICT => lpc # "done"
        /\ (merge_strategy = STRICT /\ lpc = "failed") =>
              \E K \in {"R1", "R2"} : load_error = "Duplicate route: " \o K

DatePlaces(lines, sid, date) ==
    {i \in 1..Len(lines) : lines[i].service_id = sid /\ lines[i].date = date}

\* C8: calendar_dates follows the merge strategy like the other keyed tables,
\* keyed by (service_id, date): of a pair loaded twice under one feed
\* identifier SKIP keeps the first exception_type, OVERWRITE the last, and
\* STRICT makes the load fail.
C8_CalendarDatesMerge ==
    lpc = "done" =>
        \A n \in 1..Len(zip_buffers) :
            LET fid == FeedIdOf(n)
                lines == LinesUnder("calendar_dates.txt", fid)
            IN  \A i \in 1..Len(lines) :
                    LET places == DatePlaces(lines, lines[i].service_id, lines[i].date)
                    IN  Cardinality(places) >= 2 =>
                            /\ merge_strategy # STRICT
                            /\ calendar_dates[fid][lines[i].service_id][lines[i].date]
                                   = lines[IF merge_strategy = SKIP
                                           THEN Min(places) ELSE Max(places)].exception_type

\* a range worker was handed bytes from behind the file buffer
ReadPastBuffer == GarbageLine.trip_id \in DOMAIN str_to_id

\* C9: every stop_time row survives: after a successful load (one whose range
\* workers read the bytes of the files only) the number of rows of
\* data.stop_times is the number of data lines of all the stop_times.txt
\* files loaded, also when two feeds hold stop times of one trip_id.
C9_EveryRowSurvives ==
    (lpc = "done" /\ ~ReadPastBuffer) =>
        Len(stop_times) = Len(LoadedLines("stop_times.txt"))

\* the rows of all range workers of the feed, in range order
RowsOfWorkers == Concat([k \in 1..Len(chunks) |-> chunks[k].vec])

Count(s, x) == Cardinality({i \in 1..Len(s) : s[i] = x})

SameRows(s, t) ==
    /\ Len(s) = Len(t)
    /\ \A i \in 1..Len(s) : Count(s, s[i]) = Count(t, s[i])

\* the step that ends the stop_times task of a feed
MergeStepTaken ==
    /\ "stop_times.txt" \in DOMAIN tasks
    /\ tasks["stop_times.txt"].state = "parsing"
    /\ "stop_times.txt" \in DOMAIN tasks'
    /\ tasks'["stop_times.txt"].state \in {"done", "threw"}

C10_MergeStep ==
    MergeStepTaken =>
        LET rows == RowsOfWorkers
            tids == {rows[i].trip_id : i \in 1..Len(rows)}
            earlier == tids \cap DOMAIN merged_stop_times
        IN  IF merge_strategy = STRICT /\ earlier # {}
            THEN /\ tasks'["stop_times.txt"].state = "threw"
                 /\ \E tid \in earlier :
                       tasks'["stop_times.txt"].error =
                           "Duplicate trip_id in stop_times: " \o id_to_str[tid + 1]
            ELSE /\ tasks'["stop_times.txt"].state = "done"
                 /\ DOMAIN merged_stop_times' = DOMAIN merged_stop_times \cup tids
                 /\ \A tid \in DOMAIN merged_stop_times' :
                       IF tid \notin tids \/ (merge_strategy = SKIP /\ tid \in earlier)
                       THEN merged_stop_times'[tid] = merged_stop_times[tid]
                       ELSE LET group == merged_stop_times'[tid]
                            IN  /\ SameRows(group, SelectSeq(rows, LAMBDA st : st.trip_id = tid))
                                /\ \A i \in 1..(Len(group) - 1) :
                                       group[i].stop_sequence <= group[i + 1].stop_sequence

\* C10: when the range workers of a feed have finished, their rows are
\* grouped by interned trip_id, each group is sorted by stop_sequence and
\* merged into the map of all feeds keyed by trip_id: where an earlier feed
\* contributed a group, SKIP keeps it, OVERWRITE replaces it by the later
\* feed's group, and STRICT raises an error naming the trip_id.
C10_GroupsMergedByTripId == [][C10_MergeStep]_vars

\* the second feed's group of two rows, read by two range workers, has
\* replaced the group the first feed contributed for the same trip
C10_Witness ==
    /\ lpc = "join"
    /\ feed_idx = 2
    /\ feed_ids = <<>>
    /\ merge_strategy = OVERWRITE
    /\ Len(chunks) >= 2
    /\ "stop_times.txt" \in DOMAIN tasks
    /\ tasks["stop_times.txt"].state = "done"
    /\ \E tid \in DOMAIN merged_stop_times :
          /\ Len(merged_stop_times[tid]) = 2
          /\ \A i \in 1..2 : merged_stop_times[tid][i].feed_id = str_to_id["1"]
          /\ Readable(1, "stop_times.txt")
          /\ \E j \in 1..Len(zip_buffers[1].files["stop_times.txt"]) :
                zip_buffers[1].files["stop_times.txt"][j].trip_id = id_to_str[tid + 1]

-----------------------------------------------------------------------------
(* Strings the addon reads character by character are sequences of character *)
(* codes: '0'..'9' are 48..57, ':' is 58, 'a' is 97.                          *)

IsDigit(c) == c >= 48 /\ c <= 57

\* the string of the decimal digits ds
Digits(ds) == [i \in 1..Len(ds) |-> 48 + ds[i]]

\* std::string operator<
RECURSIVE StrLess(_, _)
StrLess(a, b) ==
    IF b = <<>> THEN FALSE
    ELSE IF a = <<>> THEN TRUE
    ELSE IF Head(a) # Head(b) THEN Head(a) < Head(b)
    ELSE StrLess(Tail(a), Tail(b))

\* the value of the digits at the front of s, after the digits read so far
RECURSIVE LeadingValue(_, _)
LeadingValue(s, acc) ==
    IF s = <<>> \/ ~IsDigit(Head(s)) THEN acc
    ELSE LeadingValue(Tail(s), acc * 10 + (Head(s) - 48))

\* std::isspace
IsSpace(c) == c = 32 \/ (c >= 9 /\ c <= 13)

RECURSIVE AfterWhitespace(_)
AfterWhitespace(s) == IF s = <<>> \/ ~IsSpace(Head(s)) THEN s ELSE AfterWhitespace(Tail(s))

\* std::stoi: skips whitespace, takes a sign, converts the digits that follow
\* and stops at the first other character; throws when there is no digit
stoi(str) ==
    LET s == AfterWhitespace(str)
        signed == s # <<>> /\ Head(s) \in {43, 45}
        body == IF signed THEN Tail(s) ELSE s
    IN  IF body = <<>> \/ ~IsDigit(Head(body)) THEN [threw |-> TRUE, value |-> 0]
        ELSE [threw |-> FALSE,
              value |-> IF signed /\ Head(s) = 45 THEN 0 - LeadingValue(body, 0)
                        ELSE LeadingValue(body, 0)]

\* the largest int
INT_MAX == 2147483647

\* x * k + a in an int, for 0 <= k <= 3600 and 0 <= a < 65536: the low 32
\* bits of the product, read as a signed number.  Computed on two halves
\* of 16 bits.
int_mul_add(x, k, a) ==
    LET lo == (x % 65536) * k + a
        hi == (((x \div 65536) % 65536) * k + (lo \div 65536)) % 65536
    IN  IF hi >= 32768 THEN (hi - 65536) * 65536 + (lo % 65536)
        ELSE hi * 65536 + (lo % 65536)

\* x * k + a does not fit an int (x not negative): signed overflow
int_overflows(x, k, a) == x > (INT_MAX - a) \div k

\* *ptr of a std::string's c_str(): the terminator follows the characters
CharAt(str, i) == IF i <= Len(str) THEN str[i] ELSE 0

\* while (*ptr == ' ') ptr++;
RECURSIVE skip_spaces(_, _)
skip_spaces(str, i) == IF CharAt(str, i) = 32 THEN skip_spaces(str, i + 1) ELSE i

\* while (*ptr >= '0' && *ptr <= '9') { v = v * 10 + (*ptr - '0'); ptr++; }
RECURSIVE read_number(_, _, _)
read_number(str, i, v) ==
    IF IsDigit(CharAt(str, i))
    THEN read_number(str, i + 1,
             [value |-> int_mul_add(v.value, 10, CharAt(str, i) - 48),
              overflow |-> v.overflow \/ int_overflows(v.value, 10, CharAt(str, i) - 48),
              pos |-> i + 1])
    ELSE v

Number(i) == [value |-> 0, overflow |-> FALSE, pos |-> i]

Returns(value, overflow) == [value |-> value, overflow |-> overflow]

\* parse_time_seconds: "HH:MM:SS" to seconds, -1 when the text is not a time.
\* value is what the function returns where int arithmetic wraps around,
\* overflow whether a signed overflow happened on the way.
parse_time_seconds_run(time_str) ==
    LET p1 == skip_spaces(time_str, 1)
        h == read_number(time_str, p1, Number(p1))
        m == read_number(time_str, h.pos + 1, Number(h.pos + 1))
        s == read_number(time_str, m.pos + 1, Number(m.pos + 1))
    IN  IF time_str = <<>> THEN Returns(-1, FALSE)
        ELSE IF ~IsDigit(CharAt(time_str, p1)) THEN Returns(-1, FALSE)
        ELSE IF CharAt(time_str, h.pos) # 58 THEN Returns(-1, h.overflow)
        ELSE IF ~IsDigit(CharAt(time_str, h.pos + 1)) THEN Returns(-1, h.overflow)
        ELSE IF CharAt(time_str, m.pos) # 58 THEN Returns(-1, h.overflow \/ m.overflow)
        ELSE IF ~IsDigit(CharAt(time_str, m.pos + 1))
        THEN Returns(-1, h.overflow \/ m.overflow)
        ELSE IF m.value < 0 \/ m.value > 59 \/ s.value < 0 \/ s.value > 59
        THEN Returns(-1, h.overflow \/ m.overflow \/ s.overflow)
        ELSE Returns(int_mul_add(h.value, 3600, m.value * 60 + s.value),
                     h.overflow \/ m.overflow \/ s.overflow
                         \/ int_overflows(h.value, 3600, m.value * 60 + s.value))

parse_time_seconds(time_str) == parse_time_seconds_run(time_str).value

\* while (ptr < end && *ptr == ' ') ptr++;
RECURSIVE skip_spaces_view(_, _, _)
skip_spaces_view(data, len, i) ==
    IF i <= len /\ data[i] = 32 THEN skip_spaces_view(data, len, i + 1) ELSE i

\* while (ptr < end && *ptr >= '0' && *ptr <= '9') { ... }
RECURSIVE read_number_view(_, _, _, _)
read_number_view(data, len, i, v) ==
    IF i <= len /\ IsDigit(data[i])
    THEN read_number_view(data, len, i + 1,
             [value |-> int_mul_add(v.value, 10, data[i] - 48),
              overflow |-> v.overflow \/ int_overflows(v.value, 10, data[i] - 48),
              pos |-> i + 1])
    ELSE v

\* parse_time_seconds_view: the same on len characters that no terminator
\* follows
parse_time_seconds_view_run(data, len) ==
    LET p1 == skip_spaces_view(data, len, 1)
        h == read_number_view(data, len, p1, Number(p1))
        m == read_number_view(data, len, h.pos + 1, Number(h.pos + 1))
        s == read_number_view(data, len, m.pos + 1, Number(m.pos + 1))
    IN  IF len = 0 THEN Returns(-1, FALSE)
        ELSE IF p1 > len \/ ~IsDigit(data[p1]) THEN Returns(-1, FALSE)
        ELSE IF h.pos > len \/ data[h.pos] # 58 THEN Returns(-1, h.overflow)
        ELSE IF h.pos + 1 > len \/ ~IsDigit(data[h.pos + 1]) THEN Returns(-1, h.overflow)
        ELSE IF m.pos > len \/ data[m.pos] # 58 THEN Returns(-1, h.overflow \/ m.overflow)
        ELSE IF m.pos + 1 > len \/ ~IsDigit(data[m.pos + 1])
        THEN Returns(-1, h.overflow \/ m.overflow)
        ELSE IF m.value < 0 \/ m.value > 59 \/ s.value < 0 \/ s.value > 59
        THEN Returns(-1, h.overflow \/ m.overflow \/ s.overflow)
        ELSE Returns(int_mul_add(h.value, 3600, m.value * 60 + s.value),
                     h.overflow \/ m.overflow \/ s.overflow
                         \/ int_overflows(h.value, 3600, m.value * 60 + s.value))

parse_time_seconds_view(data, len) == parse_time_seconds_view_run(data, len).value

-----------------------------------------------------------------------------
(* GTFSAddon::GetDayOfWeek *)

\* days from 1970-01-01 to the first day of month mon (0..11) of year y
DaysToMonth(y, mon) ==
    LET m == mon + 1
        yy == IF m <= 2 THEN y - 1 ELSE y
        era == yy \div 400
        yoe == yy - era * 400
        doy == (153 * (IF m > 2 THEN m - 3 ELSE m + 9) + 2) \div 5
        doe == yoe * 365 + yoe \div 4 - yoe \div 100 + doy
    IN  era * 146097 + doe - 719468

\* std::mktime and std::localtime: tm_mon and tm_mday outside their ranges
\* are carried over, and tm_wday is the weekday of the date that results
\* (0 is Sunday; 1970-01-01 was a Thursday)
tm_wday(tm_year, tm_mon, tm_mday) ==
    LET y == tm_year + 1900 + tm_mon \div 12
        mon == tm_mon % 12
    IN  (4 + DaysToMonth(y, mon) + (tm_mday - 1)) % 7

GetDayOfWeek(date_str) ==
    IF Len(date_str) # 8 THEN -1
    ELSE LET y == stoi(SubSeq(date_str, 1, 4))
             m == stoi(SubSeq(date_str, 5, 6))
             d == stoi(SubSeq(date_str, 7, 8))
         IN  IF y.threw \/ m.threw \/ d.threw THEN -1
             ELSE tm_wday(y.value - 1900, m.value - 1, d.value)

-----------------------------------------------------------------------------
(* CheckServiceActiveLogic.  The addon reads calendars, calendar_dates and   *)
(* trips as GTFS.h declares them: one map keyed by service_id or trip_id.    *)

weekday_flag(cal, wday) ==
    CASE wday = 0 -> cal.sunday
      [] wday = 1 -> cal.monday
      [] wday = 2 -> cal.tuesday
      [] wday = 3 -> cal.wednesday
      [] wday = 4 -> cal.thursday
      [] wday = 5 -> cal.friday
      [] wday = 6 -> cal.saturday
      [] OTHER -> FALSE

\* the first block: 1 forces active, 2 forces inactive, else undecided
exception_of(service_id, date_str) ==
    IF service_id \in DOMAIN calendar_dates /\ date_str \in DOMAIN calendar_dates[service_id]
    THEN calendar_dates[service_id][date_str]
    ELSE 0

weekly_any_day(service_id, date_str, wday) ==
    /\ service_id \in DOMAIN calendars
    /\ ~StrLess(date_str, calendars[service_id].start_date)
    /\ ~StrLess(calendars[service_id].end_date, date_str)
weekly(service_id, date_str, wday) ==
    /\ service_id \in DOMAIN calendars
    /\ ~StrLess(date_str, calendars[service_id].start_date)
    /\ ~StrLess(calendars[service_id].end_date, date_str)
    /\ weekday_flag(calendars[service_id], wday)

CheckServiceActiveLogic(service_id, date_str, wday) ==
    IF exception_of(service_id, date_str) = 1 THEN TRUE
    ELSE IF exception_of(service_id, date_str) = 2 THEN FALSE
    ELSE weekly(service_id, date_str, wday)

-----------------------------------------------------------------------------
(* GTFSAddon::GetStopTimes *)

\* JavaScript values of the configuration object
Undefined == [kind |-> "undefined", str |-> "", num |-> 0, chars |-> <<>>]
JsId(s) == [kind |-> "string", str |-> s, num |-> 0, chars |-> <<>>]
JsNumber(n) == [kind |-> "number", str |-> "", num |-> n, chars |-> <<>>]
JsString(cs) == [kind |-> "string", str |-> "", num |-> 0, chars |-> cs]

\* config.Has(key) && config.Get(key).IsString()
has_trip_id(config) == config.trip_id.kind = "string"
has_stop_id(config) == config.stop_id.kind = "string"
filter_trip_id(config) == IF has_trip_id(config) THEN get_id(config.trip_id.str) ELSE NOT_FOUND
filter_stop_id(config) == IF has_stop_id(config) THEN get_id(config.stop_id.str) ELSE NOT_FOUND

\* if (filter_trip_id == 0xFFFFFFFF) return Napi::Array::New(env, 0), and the
\* same for stop_id
missed_never(config) == FALSE
missed(config) ==
    \/ has_trip_id(config) /\ filter_trip_id(config) = NOT_FOUND
    \/ has_stop_id(config) /\ filter_stop_id(config) = NOT_FOUND

\* filter_start_time and filter_end_time
filter_time(v) ==
    IF v.kind = "number" THEN v.num
    ELSE IF v.kind = "string" THEN parse_time_seconds(v.chars)
    ELSE -1

has_time_window(config) ==
    filter_time(config.start_time) # -1 /\ filter_time(config.end_time) # -1

date_wday(config) ==
    IF config.date.kind = "string" THEN GetDayOfWeek(config.date.chars) ELSE -1

has_date(config) == date_wday(config) # -1

\* std::lower_bound and std::upper_bound with the comparison a.trip_id <
\* b.trip_id, as positions counted from 0
RECURSIVE lower_bound(_, _, _, _)
lower_bound(rows, first, count, target) ==
    IF count <= 0 THEN first
    ELSE LET step == count \div 2
         IN  IF rows[first + step + 1].trip_id < target
             THEN lower_bound(rows, first + step + 1, count - (step + 1), target)
             ELSE lower_bound(rows, first, step, target)

RECURSIVE upper_bound(_, _, _, _)
upper_bound(rows, first, count, target) ==
    IF count <= 0 THEN first
    ELSE LET step == count \div 2
         IN  IF ~(target < rows[first + step + 1].trip_id)
             THEN upper_bound(rows, first + step + 1, count - (step + 1), target)
             ELSE upper_bound(rows, first, step, target)

\* the positions first, first + 1, ..., last - 1
Positions(first, last) == [i \in 1..(last - first) |-> first + i - 1]

\* std::equal_range
range_first_zero(rows, target) == 0
range_first(rows, target) == lower_bound(rows, 0, Len(rows), target)
range_second(rows, target) == upper_bound(rows, 0, Len(rows), target)

\* which of the three loops runs
path_of(config) ==
    IF has_trip_id(config) THEN "trip"
    ELSE IF has_stop_id(config) THEN "stop"
    ELSE "scan"

\* every position of stop_times, whichever path is taken
candidates_without_index(config) == Positions(0, Len(stop_times))

\* the positions the loop visits, in the order it visits them
candidates(config) ==
    CASE path_of(config) = "trip" ->
            Positions(range_first(stop_times, filter_trip_id(config)),
                      range_second(stop_times, filter_trip_id(config)))
      [] path_of(config) = "stop" ->
            IF filter_stop_id(config) \in DOMAIN stop_times_by_stop_id
            THEN stop_times_by_stop_id[filter_stop_id(config)]
            ELSE <<>>
      [] OTHER -> Positions(0, Len(stop_times))

\* arrival_in and departure_in
time_in_or_absent(t, config) ==
    \/ ~t.has_value
    \/ t.value >= filter_time(config.start_time) /\ t.value <= filter_time(config.end_time)
time_in(t, config) ==
    /\ t.has_value
    /\ t.value >= filter_time(config.start_time)
    /\ t.value <= filter_time(config.end_time)

\* the block under if (has_date); service_cache only remembers the answer
\* CheckServiceActiveLogic gave for a service_id during this call
active_on_date(st, config) ==
    /\ get(st.trip_id) \in DOMAIN trips
    /\ CheckServiceActiveLogic(trips[get(st.trip_id)].service_id, config.date.chars,
                               date_wday(config))

\* the body of the loop: TRUE when the row reaches results.push_back
pushed(st, config, path) ==
    /\ path # "trip" => (has_trip_id(config) => st.trip_id = filter_trip_id(config))
    /\ path # "stop" => (has_stop_id(config) => st.stop_id = filter_stop_id(config))
    /\ has_time_window(config) =>
           time_in(st.arrival_time, config) \/ time_in(st.departure_time, config)
    /\ has_date(config) => active_on_date(st, config)

results(config) ==
    SelectSeq(candidates(config),
              LAMBDA i : pushed(stop_times[i + 1], config, path_of(config)))

GetStopTimes(info) ==
    /\ lpc = "done"
    /\ q_config' = info
    /\ IF Len(info) < 1 \/ ~info[1].is_object
       THEN /\ q_raised' = TRUE
            /\ q_result' = <<>>
            /\ q_examined' = 0
       ELSE IF missed(info[1])
       THEN /\ q_raised' = FALSE
            /\ q_result' = <<>>
            /\ q_examined' = 0
       ELSE /\ q_raised' = FALSE
            /\ q_result' = results(info[1])
            /\ q_examined' = Len(candidates(info[1]))
    /\ UNCHANGED <<poolVars, threadVars, loadVars, historyVars, trips, realtimeVars, rtCallVars>>

-----------------------------------------------------------------------------
(* Datasets and configuration objects of the queries *)

MaxQueryLines == 3

nullopt == [has_value |-> FALSE, value |-> 0]
Some(v) == [has_value |-> TRUE, value |-> v]

QueryLines ==
    { [trip_id |-> "T1", stop_sequence |-> 2, stop_id |-> "P2",
       arrival_time |-> Some(100), departure_time |-> nullopt],
      [trip_id |-> "T1", stop_sequence |-> 1, stop_id |-> "P1",
       arrival_time |-> nullopt, departure_time |-> nullopt],
      [trip_id |-> "T2", stop_sequence |-> 1, stop_id |-> "P1",
       arrival_time |-> nullopt, departure_time |-> Some(150)] }

\* the pool after the feed id and the cells of the lines were interned
RECURSIVE PoolAfter(_, _)
PoolAfter(pool, strings) ==
    IF strings = <<>> THEN pool
    ELSE PoolAfter([map |-> InternedMap(pool.map, Head(strings)),
                    vec |-> InternedVec(pool.map, pool.vec, Head(strings))],
                   Tail(strings))

CellsOf(lines) == Concat([i \in 1..Len(lines) |-> <<lines[i].trip_id, lines[i].stop_id>>])

RowOf(line, map) ==
    [feed_id |-> map["0"], trip_id |-> map[line.trip_id], stop_id |-> map[line.stop_id],
     stop_sequence |-> line.stop_sequence,
     arrival_time |-> line.arrival_time, departure_time |-> line.departure_time]

D20240101 == Digits(<<2, 0, 2, 4, 0, 1, 0, 1>>)
D20241231 == Digits(<<2, 0, 2, 4, 1, 2, 3, 1>>)
D20240108 == Digits(<<2, 0, 2, 4, 0, 1, 0, 8>>)
D20240109 == Digits(<<2, 0, 2, 4, 0, 1, 0, 9>>)
D20231225 == Digits(<<2, 0, 2, 3, 1, 2, 2, 5>>)
\* seven characters
D2024010 == Digits(<<2, 0, 2, 4, 0, 1, 0>>)
\* "2024ab08"
D2024ab08 == <<50, 48, 50, 52, 97, 98, 48, 56>>
\* month 13
D20241308 == Digits(<<2, 0, 2, 4, 1, 3, 0, 8>>)
\* 30 February
D20240230 == Digits(<<2, 0, 2, 4, 0, 2, 3, 0>>)

ValidDates == {D20240108, D20240109, D20231225}
InvalidDates == {D2024010, D2024ab08, D20241308, D20240230}

\* S1 runs on Mondays of 2024; S2 has no weekly calendar
QueryCalendars ==
    [s \in {"S1"} |->
        [monday |-> TRUE, tuesday |-> FALSE, wednesday |-> FALSE, thursday |-> FALSE,
         friday |-> FALSE, saturday |-> FALSE, sunday |-> FALSE,
         start_date |-> D20240101, end_date |-> D20241231]]

\* date -> exception_type, for one service
ExceptionTables ==
    { EmptyMap,
      [s \in {"S1"} |-> [d \in {D20240108, D20240109} |-> IF d = D20240108 THEN 2 ELSE 1]],
      [s \in {"S1", "S2"} |-> [d \in {D20240108} |-> IF s = "S1" THEN 3 ELSE 1]] }

\* T1 runs on S1; T2 runs on S2, or is a trip trips.txt does not have
TripTables ==
    { [t \in {"T1", "T2"} |-> [service_id |-> IF t = "T1" THEN "S1" ELSE "S2"]],
      [t \in {"T1"} |-> [service_id |-> "S1"]] }

\* "00:02:30"
T000230 == <<48, 48, 58, 48, 50, 58, 51, 48>>

TripIdValues == {Undefined, JsId("T1"), JsId("T2"), JsId("TX")}
StopIdValues == {Undefined, JsId("P1"), JsId("PX")}
\* start_time and end_time: none, [0, 150], ["00:02:30", 250], start_time alone
TimeWindows ==
    { <<Undefined, Undefined>>, <<JsNumber(0), JsNumber(150)>>,
      <<JsString(T000230), JsNumber(250)>>, <<JsNumber(0), Undefined>> }
DateValues == {Undefined} \cup {JsString(d) : d \in ValidDates \cup InvalidDates}

NotAnObject ==
    [is_object |-> FALSE, trip_id |-> Undefined, stop_id |-> Undefined,
     start_time |-> Undefined, end_time |-> Undefined, date |-> Undefined]

\* the addon after a load: the pool, the sorted stop_times and their index as
\* load_feeds leaves them, the flat tables as the addon reads them
InitQuery ==
    /\ InitThreads
    /\ readers = {}
    /\ writer = 0
    /\ lpc = "done"
    /\ zip_buffers = <<>>
    /\ feed_ids = <<>>
    /\ merge_strategy = OVERWRITE
    /\ feed_idx = 1
    /\ current_feed_id = "0"
    /\ tasks = EmptyMap
    /\ chunks = <<>>
    /\ merged_stop_times = EmptyMap
    /\ load_error = ""
    /\ agencies = EmptyMap
    /\ routes = EmptyMap
    /\ calendars = QueryCalendars
    /\ calendar_dates \in ExceptionTables
    /\ trips \in TripTables
    /\ \E lines \in SeqsUpTo(QueryLines, MaxQueryLines) :
           LET pool == PoolAfter([map |-> EmptyMap, vec |-> <<>>], <<"0">> \o CellsOf(lines))
               rows == [i \in 1..Len(lines) |-> RowOf(lines[i], pool.map)]
           IN  /\ str_to_id = pool.map
               /\ id_to_str = pool.vec
               /\ stop_times \in SortedArrangements(rows, "final")
               /\ stop_times_by_stop_id = index_from(EmptyMap, stop_times, 0)
    /\ realtime_trip_updates = <<>>
    /\ realtime_vehicle_positions = <<>>
    /\ realtime_alerts = <<>>
    /\ q_config = <<>>
    /\ q_result = <<>>
    /\ q_examined = 0
    /\ q_raised = FALSE
    /\ rt_args = <<>>
    /\ rt_raised = FALSE
    /\ rt_held = 0
    /\ rt_returned = [of |-> "", value |-> <<>>]
    /\ loaded_before = <<>>
    /\ applied = <<>>

\* the configuration object of a query
Config(trip_id, stop_id, start_time, end_time, date) ==
    [is_object |-> TRUE, trip_id |-> trip_id, stop_id |-> stop_id,
     start_time |-> start_time, end_time |-> end_time, date |-> date]

\* queries that filter by trip, stop and time window, with or without a date
QueryConfigs ==
    { Config(t, s, w[1], w[2], d) :
        t \in TripIdValues, s \in StopIdValues, w \in TimeWindows,
        d \in {Undefined, JsString(D20240108)} }

NextQuery ==
    \/ GetStopTimes(<<>>)
    \/ GetStopTimes(<<NotAnObject>>)
    \/ \E config \in QueryConfigs : GetStopTimes(<<config>>)

SpecQuery == InitQuery /\ [][NextQuery]_vars

\* queries that filter by date, alone or with one other filter
DateConfigs ==
    { Config(t, s, w[1], w[2], d) :
        t \in {Undefined, JsId("T1")}, s \in {Undefined, JsId("P1")},
        w \in {<<Undefined, Undefined>>, <<JsNumber(0), JsNumber(150)>>},
        d \in DateValues }

NextQueryDate == \E config \in DateConfigs : GetStopTimes(<<config>>)

SpecQueryDate == InitQuery /\ [][NextQueryDate]_vars

-----------------------------------------------------------------------------
(* Properties of GetStopTimes *)

\* a query that got its configuration object and returned an array
Queried == Len(q_config) = 1 /\ q_config[1].is_object /\ ~q_raised

RowAt(i) == stop_times[i + 1]

\* the positions of stop_times, first to last, whose row satisfies Keep
Scan(Keep(_)) == SelectSeq(Positions(0, Len(stop_times)), LAMBDA i : Keep(RowAt(i)))

OnlyTripId(config) ==
    /\ config.trip_id.kind = "string"
    /\ config.stop_id.kind = "undefined"
    /\ config.start_time.kind = "undefined"
    /\ config.end_time.kind = "undefined"
    /\ config.date.kind = "undefined"

Ascending(positions) ==
    \A i, j \in 1..Len(positions) :
        i < j => RowAt(positions[i]).stop_sequence <= RowAt(positions[j]).stop_sequence

\* C11: a query that filters by trip_id alone returns exactly the rows a scan
\* of all of stop_times finds with that trip_id, in ascending stop_sequence
\* order.
C11_TripRangeEqualsScan ==
    (Queried /\ OnlyTripId(q_config[1])) =>
        LET T == q_config[1].trip_id.str
            HasTrip(st) == T \in DOMAIN str_to_id /\ st.trip_id = str_to_id[T]
        IN  /\ q_result = Scan(HasTrip)
            /\ Ascending(q_result)

\* the trip's rows start after another trip's and there are two of them
C11_Witness ==
    /\ Queried
    /\ OnlyTripId(q_config[1])
    /\ Len(q_result) >= 2
    /\ q_result[1] > 0
    /\ RowAt(q_result[1]).stop_sequence < RowAt(q_result[2]).stop_sequence

NeverInterned(config) ==
    \/ config.trip_id.kind = "string" /\ config.trip_id.str \notin DOMAIN str_to_id
    \/ config.stop_id.kind = "string" /\ config.stop_id.str \notin DOMAIN str_to_id

\* C12: a query whose trip_id or stop_id value is not in the string pool
\* returns an empty array without visiting a row, whatever its other filters
\* are, and leaves the pool as it was.
C12_UnknownIdReturnsEmpty ==
    [][(Len(q_config') = 1 /\ q_config'[1].is_object /\ NeverInterned(q_config'[1])) =>
           /\ ~q_raised'
           /\ q_result' = <<>>
           /\ q_examined' = 0
           /\ str_to_id' = str_to_id
           /\ id_to_str' = id_to_str]_vars

\* the trip is known and has rows, the stop is unknown, a window and a date
\* are given as well
C12_Witness ==
    /\ Queried
    /\ q_config[1].trip_id.kind = "string"
    /\ q_config[1].trip_id.str \in DOMAIN str_to_id
    /\ \E i \in 1..Len(stop_times) : stop_times[i].trip_id = str_to_id[q_config[1].trip_id.str]
    /\ q_config[1].stop_id.kind = "string"
    /\ q_config[1].stop_id.str \notin DOMAIN str_to_id
    /\ q_config[1].start_time.kind # "undefined"
    /\ q_config[1].date.kind # "undefined"
    /\ q_result = <<>>
    /\ q_examined = 0

\* both bounds are given and each is a time
GivesWindow(config) ==
    /\ config.start_time.kind # "undefined"
    /\ config.end_time.kind # "undefined"
    /\ filter_time(config.start_time) >= 0
    /\ filter_time(config.end_time) >= 0

InWindow(t, config) ==
    /\ t.has_value
    /\ filter_time(config.start_time) <= t.value
    /\ t.value <= filter_time(config.end_time)

\* C13: when the query gives a time window, every returned row has an arrival
\* time or a departure time that is present and inside the inclusive range;
\* a row with neither time is not returned.  On all three paths.
C13_TimeWindow ==
    (Queried /\ GivesWindow(q_config[1])) =>
        \A k \in 1..Len(q_result) :
            LET st == RowAt(q_result[k])
            IN  /\ st.arrival_time.has_value \/ st.departure_time.has_value
                /\ InWindow(st.arrival_time, q_config[1])
                       \/ InWindow(st.departure_time, q_config[1])

\* the stop index path: a row without times was visited and dropped, and a
\* row whose departure time is the upper bound was returned
C13_Witness ==
    /\ Queried
    /\ GivesWindow(q_config[1])
    /\ path_of(q_config[1]) = "stop"
    /\ q_config[1].date.kind = "undefined"
    /\ \E k \in 1..Len(q_result) :
           /\ RowAt(q_result[k]).departure_time.has_value
           /\ RowAt(q_result[k]).departure_time.value = filter_time(q_config[1].end_time)
    /\ \E i \in 1..Len(candidates(q_config[1])) :
           LET st == RowAt(candidates(q_config[1])[i])
           IN  ~st.arrival_time.has_value /\ ~st.departure_time.has_value

\* the same on the trip range and on the full scan
C13_WitnessTripPath ==
    /\ Queried
    /\ GivesWindow(q_config[1])
    /\ path_of(q_config[1]) = "trip"
    /\ q_result # <<>>
    /\ \E i \in 0..(Len(stop_times) - 1) :
           /\ RowAt(i).trip_id = filter_trip_id(q_config[1])
           /\ ~RowAt(i).arrival_time.has_value
           /\ ~RowAt(i).departure_time.has_value
C13_WitnessFullScan ==
    /\ Queried
    /\ GivesWindow(q_config[1])
    /\ path_of(q_config[1]) = "scan"
    /\ q_result # <<>>
    /\ \E i \in 0..(Len(stop_times) - 1) :
           /\ ~RowAt(i).arrival_time.has_value
           /\ ~RowAt(i).departure_time.has_value

OnlyDate(config) ==
    /\ config.trip_id.kind = "undefined"
    /\ config.stop_id.kind = "undefined"
    /\ config.start_time.kind = "undefined"
    /\ config.end_time.kind = "undefined"
    /\ config.date.kind = "string"

\* D as year * 10000 + month * 100 + day
DateNumber(D) == LeadingValue(D, 0)

ExceptionType(S, D) ==
    IF S \in DOMAIN calendar_dates /\ D \in DOMAIN calendar_dates[S]
    THEN calendar_dates[S][D] ELSE 0

\* the weekday of the three valid dates of the queries
WeekdayName(D) == IF D = D20240109 THEN "tuesday" ELSE "monday"

\* the resolution rule, for a valid date D
ActiveByRule(S, D) ==
    IF ExceptionType(S, D) = 1 THEN TRUE
    ELSE IF ExceptionType(S, D) = 2 THEN FALSE
    ELSE IF S \in DOMAIN calendars
    THEN /\ DateNumber(calendars[S].start_date) <= DateNumber(D)
         /\ DateNumber(D) <= DateNumber(calendars[S].end_date)
         /\ calendars[S][WeekdayName(D)]
    ELSE FALSE

\* S1 on the three dates: Monday 8 January 2024 is the one active date, and an
\* exception of type 2 on it or of type 1 on 9 January flips the answer
S1ActiveOn(D) ==
    LET plain == (D = D20240108)
        flipped == \/ D = D20240108 /\ ExceptionType("S1", D) = 2
                   \/ D = D20240109 /\ ExceptionType("S1", D) = 1
    IN  plain # flipped

\* C14: a service is active on a date by its calendar_dates exception (1
\* active, 2 inactive, others fall through), else by its weekly calendar
\* (inside the range and the weekday flag set), else inactive; a query that
\* filters by a valid date alone returns the rows of the trips whose service
\* is active, and S1 is active on the dates the claim lists.
C14_ServiceActive ==
    (Queried /\ OnlyDate(q_config[1]) /\ q_config[1].date.chars \in ValidDates) =>
        LET D == q_config[1].date.chars
            Runs(st) == /\ get(st.trip_id) \in DOMAIN trips
                        /\ ActiveByRule(trips[get(st.trip_id)].service_id, D)
        IN  /\ q_result = Scan(Runs)
            /\ ActiveByRule("S1", D) = S1ActiveOn(D)
            /\ \A S \in {"S1", "S2"} :
                   CheckServiceActiveLogic(S, D, GetDayOfWeek(D)) = ActiveByRule(S, D)

\* Tuesday 9 January 2024 with an exception of type 1: the rows of S1 are
\* returned
C14_Witness ==
    /\ Queried
    /\ OnlyDate(q_config[1])
    /\ q_config[1].date.chars = D20240109
    /\ ExceptionType("S1", D20240109) = 1
    /\ q_result # <<>>
    /\ \A k \in 1..Len(q_result) : trips[get(RowAt(q_result[k]).trip_id)].service_id = "S1"

\* Monday 8 January 2024 with an exception of type 2, and without one
C14_WitnessInactive ==
    /\ Queried
    /\ OnlyDate(q_config[1])
    /\ q_config[1].date.chars = D20240108
    /\ ExceptionType("S1", D20240108) = 2
    /\ stop_times # <<>>
    /\ q_result = <<>>
C14_WitnessWeekly ==
    /\ Queried
    /\ OnlyDate(q_config[1])
    /\ q_config[1].date.chars = D20240108
    /\ ExceptionType("S1", D20240108) = 3
    /\ Len(q_result) >= 2

\* C15: a query whose date is not a date (wrong length, not a number, a month
\* or a day that does not exist) returns no row and raises nothing.
C15_InvalidDateFailsClosed ==
    (Len(q_config) = 1 /\ q_config[1].is_object
        /\ q_config[1].date.kind = "string" /\ q_config[1].date.chars \in InvalidDates) =>
        /\ ~q_raised
        /\ q_result = <<>>

-----------------------------------------------------------------------------
(* parse_realtime_feed.  A buffer is described by what nanopb decodes from   *)
(* it: the entities in front of the first structural error, and whether      *)
(* there is such an error.  A message is described by its has_ flags and     *)
(* values as pb_decode fills them in (zero when the field is not on the      *)
(* wire); a string field by whether its decode callback runs and with what.  *)
(* Fields are in the order of their field numbers.                            *)

INT_MIN == -2147483647 - 1

\* decode_string: the target keeps its initial value "" when the field is
\* not on the wire
decoded_string(field) == IF field.present THEN field.value ELSE ""

\* if (x.has_delay) ... = x.delay; else ... = -2147483648
delay_or_zero(has_delay, delay) == IF has_delay THEN delay ELSE 0
delay_or_absent(has_delay, delay) == IF has_delay THEN delay ELSE INT_MIN

\* if (x.has_f) ... = x.f; else ... = -1
value_or_minus_one(has_value, value) == IF has_value THEN value ELSE -1

\* if (x.has_timestamp) ... = x.timestamp, over the member's initial value 0
timestamp_or_initial(has_timestamp, timestamp) == IF has_timestamp THEN timestamp ELSE 0

\* RealtimeTripDescriptor as filled from a TripDescriptor message
decoded_trip(trip) ==
    [trip_id |-> decoded_string(trip.trip_id),
     start_time |-> decoded_string(trip.start_time),
     start_date |-> decoded_string(trip.start_date),
     direction_id |-> value_or_minus_one(trip.has_direction_id, trip.direction_id),
     schedule_relationship |->
         IF trip.has_schedule_relationship THEN trip.schedule_relationship ELSE 0]

\* the stop_time_update callback
decoded_stop_time_update(pb_stu, trip) ==
    [stop_sequence |-> value_or_minus_one(pb_stu.has_stop_sequence, pb_stu.stop_sequence),
     stop_id |-> decoded_string(pb_stu.stop_id),
     trip_id |-> decoded_string(trip.trip_id),
     start_date |-> decoded_string(trip.start_date),
     start_time |-> decoded_string(trip.start_time),
     arrival_delay |->
         IF pb_stu.has_arrival
         THEN delay_or_absent(pb_stu.arrival.has_delay, pb_stu.arrival.delay)
         ELSE delay_or_absent(FALSE, 0),
     arrival_time |->
         IF pb_stu.has_arrival
         THEN value_or_minus_one(pb_stu.arrival.has_time, pb_stu.arrival.time)
         ELSE -1,
     arrival_uncertainty |->
         IF pb_stu.has_arrival
         THEN value_or_minus_one(pb_stu.arrival.has_uncertainty, pb_stu.arrival.uncertainty)
         ELSE -1,
     departure_delay |->
         IF pb_stu.has_departure
         THEN delay_or_absent(pb_stu.departure.has_delay, pb_stu.departure.delay)
         ELSE delay_or_absent(FALSE, 0),
     departure_time |->
         IF pb_stu.has_departure
         THEN value_or_minus_one(pb_stu.departure.has_time, pb_stu.departure.time)
         ELSE -1,
     departure_uncertainty |->
         IF pb_stu.has_departure
         THEN value_or_minus_one(pb_stu.departure.has_uncertainty,
                                 pb_stu.departure.uncertainty)
         ELSE -1,
     schedule_relationship |->
         IF pb_stu.has_schedule_relationship THEN pb_stu.schedule_relationship ELSE 0]

\* a string field whose decode_string callback has not run
not_decoded == [present |-> FALSE, value |-> ""]

\* tu_ctx.current_update.trip as the callback of the j-th stop_time_update
\* finds it: pb_decode runs the callbacks in wire order, and trip_at of the
\* stop_time_update fields precede the trip field
trip_when_decoding(trip_update, j) ==
    IF j > trip_update.trip_at
    THEN trip_update.trip
    ELSE [trip_update.trip EXCEPT !.trip_id = not_decoded,
                                  !.start_time = not_decoded,
                                  !.start_date = not_decoded]

\* if (stu.trip_id.empty()) stu.trip_id = tu_ctx.current_update.trip.trip_id
backfilled(stu, trip) ==
    IF stu.trip_id = "" THEN [stu EXCEPT !.trip_id = decoded_string(trip.trip_id)] ELSE stu

\* if (entity.has_trip_update): tu_ctx.current_update as it is pushed
decoded_trip_update(entity) ==
    [update_id |-> decoded_string(entity.id),
     is_deleted |-> entity.is_deleted,
     trip |-> decoded_trip(entity.trip_update.trip),
     stop_time_updates |->
         [j \in 1..Len(entity.trip_update.stop_time_update) |->
             backfilled(
                 decoded_stop_time_update(entity.trip_update.stop_time_update[j],
                                          trip_when_decoding(entity.trip_update, j)),
                 entity.trip_update.trip)],
     timestamp |-> timestamp_or_initial(entity.trip_update.has_timestamp,
                                        entity.trip_update.timestamp),
     delay |-> delay_or_absent(entity.trip_update.has_delay, entity.trip_update.delay)]

\* RealtimePosition: its initial values when the message has no position
decoded_position(has_position, position) ==
    IF has_position
    THEN [latitude |-> position.latitude,
          longitude |-> position.longitude,
          bearing |-> value_or_minus_one(position.has_bearing, position.bearing),
          odometer |-> value_or_minus_one(position.has_odometer, position.odometer),
          speed |-> value_or_minus_one(position.has_speed, position.speed)]
    ELSE [latitude |-> 0, longitude |-> 0, bearing |-> -1, odometer |-> -1, speed |-> -1]

\* if (entity.has_vehicle): vp_ctx.current_pos as it is pushed
decoded_vehicle(entity) ==
    [update_id |-> decoded_string(entity.id),
     is_deleted |-> entity.is_deleted,
     trip |-> decoded_trip(entity.vehicle.trip),
     position |-> decoded_position(entity.vehicle.has_position, entity.vehicle.position),
     current_stop_sequence |->
         value_or_minus_one(entity.vehicle.has_current_stop_sequence,
                            entity.vehicle.current_stop_sequence),
     stop_id |-> decoded_string(entity.vehicle.stop_id),
     current_status |->
         value_or_minus_one(entity.vehicle.has_current_status, entity.vehicle.current_status),
     timestamp |-> timestamp_or_initial(entity.vehicle.has_timestamp,
                                        entity.vehicle.timestamp)]

\* decode_translated_string_content, run once per translation in wire order
\* on the same target: if (inner_str->empty()) *inner_str = temp_text
RECURSIVE decode_translated_string_content(_, _)
decode_translated_string_content(inner_str, translations) ==
    IF translations = <<>> THEN inner_str
    ELSE decode_translated_string_content(
             IF inner_str = "" THEN Head(translations) ELSE inner_str,
             Tail(translations))

\* if (entity.has_alert): al_ctx.current_alert as it is pushed
decoded_alert(entity) ==
    [update_id |-> decoded_string(entity.id),
     is_deleted |-> entity.is_deleted,
     url |-> decode_translated_string_content("", entity.alert.url),
     header_text |-> decode_translated_string_content("", entity.alert.header_text),
     description_text |->
         decode_translated_string_content("", entity.alert.description_text),
     cause |-> value_or_minus_one(entity.alert.has_cause, entity.alert.cause),
     effect |-> value_or_minus_one(entity.alert.has_effect, entity.alert.effect),
     severity_level |->
         value_or_minus_one(entity.alert.has_severity_level, entity.alert.severity_level)]

\* the entity callback after a successful pb_decode: the three collections
\* with the records of this entity pushed
entity_pushed(colls, entity) ==
    [trip_updates |->
         IF entity.has_trip_update
         THEN Append(colls.trip_updates, decoded_trip_update(entity))
         ELSE colls.trip_updates,
     vehicle_positions |->
         IF entity.has_vehicle
         THEN Append(colls.vehicle_positions, decoded_vehicle(entity))
         ELSE colls.vehicle_positions,
     alerts |->
         IF entity.has_alert
         THEN Append(colls.alerts, decoded_alert(entity))
         ELSE colls.alerts]

RECURSIVE entities_pushed(_, _)
entities_pushed(colls, entities) ==
    IF entities = <<>> THEN colls
    ELSE entities_pushed(entity_pushed(colls, Head(entities)), Tail(entities))

\* parse_realtime_feed: type is not read; a failed pb_decode writes to
\* std::cerr and the function returns
parse_realtime_feed(colls, buf, type) == entities_pushed(colls, buf.entities)

-----------------------------------------------------------------------------
(* GTFSAddon::UpdateRealtime and the realtime getters *)

\* the buffers of an array that are still decoded after buf
rest_unless_malformed(buf, rest) == IF buf.malformed THEN <<>> ELSE rest
rest_after(buf, rest) == rest

\* for (i = 0; i < arr.Length(); ++i) if (v.IsBuffer()) parse_realtime_feed(...)
RECURSIVE parse_array(_, _, _)
parse_array(colls, elems, type) ==
    IF elems = <<>> THEN colls
    ELSE IF Head(elems).is_buffer
    THEN parse_array(parse_realtime_feed(colls, Head(elems).buf, type),
                     rest_after(Head(elems).buf, Tail(elems)), type)
    ELSE parse_array(colls, Tail(elems), type)

\* if (info[i].IsBuffer()) ... else if (info[i].IsArray()) ...
parse_argument(colls, arg, type) ==
    IF arg.kind = "buffer" THEN parse_realtime_feed(colls, arg.buf, type)
    ELSE IF arg.kind = "array" THEN parse_array(colls, arg.elems, type)
    ELSE colls

\* data.realtime_trip_updates.clear() and the two that follow
kept(collection) == collection
cleared(collection) == <<>>

Null == <<>>

UpdateRealtime(info) ==
    /\ rt_args' = info
    /\ rt_returned' = [of |-> "UpdateRealtime", value |-> Null]
    /\ rt_held' = Len(realtime_trip_updates) + Len(realtime_vehicle_positions)
                      + Len(realtime_alerts)
    /\ IF Len(info) < 3
       THEN /\ rt_raised' = TRUE
            /\ UNCHANGED realtimeVars
       ELSE LET start == [trip_updates |-> cleared(realtime_trip_updates),
                          vehicle_positions |-> cleared(realtime_vehicle_positions),
                          alerts |-> cleared(realtime_alerts)]
                after0 == parse_argument(start, info[1], 2)
                after1 == parse_argument(after0, info[2], 0)
                after2 == parse_argument(after1, info[3], 1)
            IN  /\ rt_raised' = FALSE
                /\ realtime_trip_updates' = after2.trip_updates
                /\ realtime_vehicle_positions' = after2.vehicle_positions
                /\ realtime_alerts' = after2.alerts
    /\ UNCHANGED <<poolVars, threadVars, loadVars, historyVars, trips, queryVars>>

\* a field the getter sets to the value or to env.Null()
Exposed(is_value, value) == [is_null |-> ~is_value, value |-> value]

exposed_trip(trip) ==
    [trip_id |-> trip.trip_id,
     direction_id |-> Exposed(trip.direction_id # -1, trip.direction_id),
     start_time |-> trip.start_time,
     start_date |-> Exposed(trip.start_date # "", trip.start_date),
     schedule_relationship |-> trip.schedule_relationship]

exposed_stop_time_update(stu) ==
    [stop_sequence |-> Exposed(stu.stop_sequence # -1, stu.stop_sequence),
     stop_id |-> stu.stop_id,
     trip_id |-> stu.trip_id,
     start_date |-> Exposed(stu.start_date # "", stu.start_date),
     start_time |-> Exposed(stu.start_time # "", stu.start_time),
     arrival_delay |-> Exposed(stu.arrival_delay # INT_MIN, stu.arrival_delay),
     arrival_time |-> Exposed(stu.arrival_time # -1, stu.arrival_time),
     arrival_uncertainty |-> Exposed(stu.arrival_uncertainty # -1, stu.arrival_uncertainty),
     departure_delay |-> Exposed(stu.departure_delay # INT_MIN, stu.departure_delay),
     departure_time |-> Exposed(stu.departure_time # -1, stu.departure_time),
     departure_uncertainty |->
         Exposed(stu.departure_uncertainty # -1, stu.departure_uncertainty),
     schedule_relationship |-> stu.schedule_relationship]

exposed_trip_update(tu) ==
    [update_id |-> tu.update_id,
     is_deleted |-> tu.is_deleted,
     trip |-> exposed_trip(tu.trip),
     stop_time_updates |->
         [j \in 1..Len(tu.stop_time_updates) |->
             exposed_stop_time_update(tu.stop_time_updates[j])],
     timestamp |-> Exposed(tu.timestamp # 0, tu.timestamp),
     delay |-> Exposed(tu.delay # INT_MIN, tu.delay)]

exposed_vehicle_position(vp) ==
    [update_id |-> vp.update_id,
     is_deleted |-> vp.is_deleted,
     trip |-> exposed_trip(vp.trip),
     position |->
         [latitude |-> vp.position.latitude,
          longitude |-> vp.position.longitude,
          bearing |-> Exposed(vp.position.bearing # -1, vp.position.bearing),
          odometer |-> Exposed(vp.position.odometer # -1, vp.position.odometer),
          speed |-> Exposed(vp.position.speed # -1, vp.position.speed)],
     current_stop_sequence |->
         Exposed(vp.current_stop_sequence # -1, vp.current_stop_sequence),
     stop_id |-> vp.stop_id,
     current_status |-> Exposed(vp.current_status # -1, vp.current_status),
     timestamp |-> Exposed(vp.timestamp # 0, vp.timestamp)]

exposed_alert(a) ==
    [update_id |-> a.update_id,
     is_deleted |-> a.is_deleted,
     url |-> a.url,
     header_text |-> a.header_text,
     description_text |-> a.description_text,
     cause |-> Exposed(a.cause # -1, a.cause),
     effect |-> Exposed(a.effect # -1, a.effect),
     severity_level |-> Exposed(a.severity_level # -1, a.severity_level)]

GetRealtimeTripUpdates ==
    /\ rt_returned' =
           [of |-> "GetRealtimeTripUpdates",
            value |-> [i \in 1..Len(realtime_trip_updates) |->
                          exposed_trip_update(realtime_trip_updates[i])]]
    /\ UNCHANGED <<poolVars, threadVars, loadVars, historyVars, trips, realtimeVars, queryVars,
                   rt_args, rt_raised, rt_held>>

GetRealtimeVehiclePositions ==
    /\ rt_returned' =
           [of |-> "GetRealtimeVehiclePositions",
            value |-> [i \in 1..Len(realtime_vehicle_positions) |->
                          exposed_vehicle_position(realtime_vehicle_positions[i])]]
    /\ UNCHANGED <<poolVars, threadVars, loadVars, historyVars, trips, realtimeVars, queryVars,
                   rt_args, rt_raised, rt_held>>

GetRealtimeAlerts ==
    /\ rt_returned' =
           [of |-> "GetRealtimeAlerts",
            value |-> [i \in 1..Len(realtime_alerts) |-> exposed_alert(realtime_alerts[i])]]
    /\ UNCHANGED <<poolVars, threadVars, loadVars, historyVars, trips, realtimeVars, queryVars,
                   rt_args, rt_raised, rt_held>>

-----------------------------------------------------------------------------
(* Messages, buffers and arguments of the realtime calls *)

Str(v) == [present |-> TRUE, value |-> v]
NoStr == [present |-> FALSE, value |-> ""]

TripDescriptor(start, has_direction_id, direction_id) ==
    [trip_id |-> Str("T1"), start_time |-> start, start_date |-> start,
     has_direction_id |-> has_direction_id, direction_id |-> direction_id,
     has_schedule_relationship |-> FALSE, schedule_relationship |-> 0]

NoTripDescriptor ==
    [trip_id |-> NoStr, start_time |-> NoStr, start_date |-> NoStr,
     has_direction_id |-> FALSE, direction_id |-> 0,
     has_schedule_relationship |-> FALSE, schedule_relationship |-> 0]

StopTimeEvent(has_delay, delay, has_time, time, has_uncertainty, uncertainty) ==
    [has_delay |-> has_delay, delay |-> delay, has_time |-> has_time, time |-> time,
     has_uncertainty |-> has_uncertainty, uncertainty |-> uncertainty]

NoStopTimeEvent == StopTimeEvent(FALSE, 0, FALSE, 0, FALSE, 0)

StopTimeUpdate(has_stop_sequence, stop_sequence, has_arrival, arrival,
               has_departure, departure) ==
    [stop_id |-> Str("P1"),
     has_stop_sequence |-> has_stop_sequence, stop_sequence |-> stop_sequence,
     has_arrival |-> has_arrival, arrival |-> arrival,
     has_departure |-> has_departure, departure |-> departure,
     has_schedule_relationship |-> FALSE, schedule_relationship |-> 0]

\* trip_at: the number of stop_time_update fields that precede the trip
\* field in the encoding of the message
TripUpdateOnWire(trip, stop_time_update, trip_at) ==
    [trip |-> trip, stop_time_update |-> stop_time_update, trip_at |-> trip_at,
     has_timestamp |-> FALSE, timestamp |-> 0, has_delay |-> FALSE, delay |-> 0]

TripUpdate(trip, stop_time_update, has_timestamp, timestamp, has_delay, delay) ==
    [trip |-> trip, stop_time_update |-> stop_time_update, trip_at |-> 0,
     has_timestamp |-> has_timestamp, timestamp |-> timestamp,
     has_delay |-> has_delay, delay |-> delay]

NoTripUpdate == TripUpdate(NoTripDescriptor, <<>>, FALSE, 0, FALSE, 0)

Position(has_bearing, bearing, has_odometer, odometer, has_speed, speed) ==
    [latitude |-> 0, longitude |-> 0,
     has_bearing |-> has_bearing, bearing |-> bearing,
     has_odometer |-> has_odometer, odometer |-> odometer,
     has_speed |-> has_speed, speed |-> speed]

NoPosition == Position(FALSE, 0, FALSE, 0, FALSE, 0)

VehiclePosition(trip, has_position, position, has_current_stop_sequence,
                current_stop_sequence, has_timestamp, timestamp) ==
    [trip |-> trip, has_position |-> has_position, position |-> position,
     has_current_stop_sequence |-> has_current_stop_sequence,
     current_stop_sequence |-> current_stop_sequence,
     stop_id |-> NoStr,
     has_current_status |-> FALSE, current_status |-> 0,
     has_timestamp |-> has_timestamp, timestamp |-> timestamp]

NoVehiclePosition == VehiclePosition(NoTripDescriptor, FALSE, NoPosition, FALSE, 0, FALSE, 0)

\* the translations of each text field, first on the wire first
Alert(has_cause, header_text, description_text, url) ==
    [has_cause |-> has_cause, cause |-> 1, has_effect |-> FALSE, effect |-> 0,
     has_severity_level |-> FALSE, severity_level |-> 0,
     header_text |-> header_text, description_text |-> description_text, url |-> url]

NoAlert == [Alert(FALSE, <<>>, <<>>, <<>>) EXCEPT !.cause = 0]

FeedEntity(id, has_trip_update, trip_update, has_vehicle, vehicle, has_alert, alert) ==
    [id |-> Str(id), is_deleted |-> FALSE,
     has_trip_update |-> has_trip_update, trip_update |-> trip_update,
     has_vehicle |-> has_vehicle, vehicle |-> vehicle,
     has_alert |-> has_alert, alert |-> alert]

TripUpdateEntity(id, trip_update) ==
    FeedEntity(id, TRUE, trip_update, FALSE, NoVehiclePosition, FALSE, NoAlert)
VehicleEntity(id, vehicle) ==
    FeedEntity(id, FALSE, NoTripUpdate, TRUE, vehicle, FALSE, NoAlert)
AlertEntity(id) ==
    FeedEntity(id, FALSE, NoTripUpdate, FALSE, NoVehiclePosition, TRUE,
               Alert(TRUE, <<>>, <<>>, <<>>))
AlertTextEntity(id, alert) ==
    FeedEntity(id, FALSE, NoTripUpdate, FALSE, NoVehiclePosition, TRUE, alert)

\* a buffer that decodes to its end, and one with a structural error behind
\* the entities given
Good(entities) == [entities |-> entities, malformed |-> FALSE]
Truncated(entities) == [entities |-> entities, malformed |-> TRUE]

\* info[i]: undefined or null, a Buffer, an Array
Omitted == [kind |-> "undefined", buf |-> Good(<<>>), elems |-> <<>>]
BufferArg(buf) == [kind |-> "buffer", buf |-> buf, elems |-> <<>>]
ArrayArg(elems) == [kind |-> "array", buf |-> Good(<<>>), elems |-> elems]
Elem(buf) == [is_buffer |-> TRUE, buf |-> buf]
NotABuffer == [is_buffer |-> FALSE, buf |-> Good(<<>>)]

PlainTripUpdate ==
    TripUpdate(TripDescriptor(Str("20240108"), TRUE, 1),
               <<StopTimeUpdate(TRUE, 1, TRUE, StopTimeEvent(TRUE, 60, FALSE, 0, FALSE, 0),
                                FALSE, NoStopTimeEvent)>>,
               TRUE, 1000, FALSE, 0)
PlainVehicle ==
    VehiclePosition(TripDescriptor(Str("20240108"), TRUE, 1), TRUE,
                    Position(TRUE, 90, FALSE, 0, TRUE, 10), TRUE, 1, TRUE, 1000)

TU(id) == TripUpdateEntity(id, PlainTripUpdate)
VP(id) == VehicleEntity(id, PlainVehicle)

AlertInputs ==
    { Omitted,
      ArrayArg(<<>>),
      BufferArg(Good(<<AlertEntity("a1")>>)),
      BufferArg(Good(<<TU("tu0")>>)),
      ArrayArg(<<Elem(Good(<<AlertEntity("a1")>>)), Elem(Truncated(<<>>)),
                 Elem(Good(<<AlertEntity("a2")>>))>>) }

TripUpdateInputs ==
    { Omitted,
      ArrayArg(<<>>),
      BufferArg(Good(<<TU("tu1")>>)),
      BufferArg(Good(<<TU("tu1"), VP("vp0")>>)),
      ArrayArg(<<Elem(Good(<<TU("tu1")>>)), Elem(Truncated(<<>>)), Elem(Good(<<TU("tu2")>>))>>),
      ArrayArg(<<Elem(Truncated(<<TU("tu1")>>)), Elem(Good(<<TU("tu2")>>))>>),
      ArrayArg(<<Elem(Good(<<TU("tu1")>>)), NotABuffer, Elem(Good(<<TU("tu2")>>))>>) }

VehicleInputs ==
    { Omitted,
      ArrayArg(<<>>),
      BufferArg(Good(<<VP("vp1")>>)),
      ArrayArg(<<Elem(Good(<<VP("vp1")>>)), Elem(Good(<<VP("vp2")>>))>>) }

\* calls with fewer than three arguments
ShortCalls == { <<>>, <<ArrayArg(<<>>), BufferArg(Good(<<TU("tu1")>>))>> }

NextRealtime ==
    \/ \E a \in AlertInputs : \E t \in TripUpdateInputs : \E v \in VehicleInputs :
           UpdateRealtime(<<a, t, v>>)
    \/ \E info \in ShortCalls : UpdateRealtime(info)
    \/ GetRealtimeTripUpdates
    \/ GetRealtimeVehiclePositions
    \/ GetRealtimeAlerts

SpecRealtime == InitPoolSpec /\ [][NextRealtime]_vars

\* the optional fields on the wire: absent, zero, the value the record uses
\* for absent, and another value
StopTimeEvents ==
    { NoStopTimeEvent } \cup
    { StopTimeEvent(FALSE, 0, TRUE, t, FALSE, 0) : t \in {0, -1, 1000} } \cup
    { StopTimeEvent(TRUE, d, FALSE, 0, FALSE, 0) : d \in {0, INT_MIN, -60} } \cup
    { StopTimeEvent(FALSE, 0, FALSE, 0, TRUE, u) : u \in {0, -1} } \cup
    { StopTimeEvent(TRUE, 0, TRUE, 0, TRUE, 0) }

StopTimeUpdates ==
    { StopTimeUpdate(seq[1], seq[2], arr[1], arr[2], dep[1], dep[2]) :
        seq \in {<<FALSE, 0>>, <<TRUE, 0>>, <<TRUE, 3>>},
        arr \in {<<FALSE, NoStopTimeEvent>>} \cup {<<TRUE, e>> : e \in StopTimeEvents},
        dep \in {<<FALSE, NoStopTimeEvent>>, <<TRUE, NoStopTimeEvent>>,
                 <<TRUE, StopTimeEvent(FALSE, 0, TRUE, 0, FALSE, 0)>>,
                 <<TRUE, StopTimeEvent(TRUE, 0, TRUE, -1, TRUE, -1)>>} }

TripDescriptors ==
    { TripDescriptor(start, dir[1], dir[2]) :
        start \in {NoStr, Str(""), Str("20240108")},
        dir \in {<<FALSE, 0>>, <<TRUE, 0>>, <<TRUE, 1>>} }

TripUpdateFields ==
    { TripUpdate(TripDescriptor(Str("20240108"), TRUE, 1), <<stu>>, TRUE, 1000, FALSE, 0) :
        stu \in StopTimeUpdates } \cup
    { TripUpdate(trip, <<>>, ts[1], ts[2], delay[1], delay[2]) :
        trip \in TripDescriptors,
        ts \in {<<FALSE, 0>>, <<TRUE, 0>>, <<TRUE, 1000>>},
        delay \in {<<FALSE, 0>>, <<TRUE, 0>>, <<TRUE, INT_MIN>>, <<TRUE, -60>>} }

BearingValues == {<<FALSE, 0>>, <<TRUE, 0>>, <<TRUE, -1>>, <<TRUE, 90>>}

VehicleFields ==
    { VehiclePosition(TripDescriptor(Str("20240108"), TRUE, 1), FALSE, NoPosition,
                      FALSE, 0, FALSE, 0) } \cup
    { VehiclePosition(TripDescriptor(Str("20240108"), TRUE, 1), TRUE,
                      Position(b[1], b[2], o[1], o[2], b[1], b[2]),
                      seq[1], seq[2], ts[1], ts[2]) :
        b \in BearingValues, o \in {<<FALSE, 0>>, <<TRUE, -1>>},
        seq \in {<<FALSE, 0>>, <<TRUE, 0>>},
        ts \in {<<FALSE, 0>>, <<TRUE, 0>>, <<TRUE, 1000>>} }

\* one trip update or one vehicle position per call, with every combination
\* of optional fields above
TripUpdateCalls ==
    { <<Omitted, BufferArg(Good(<<TripUpdateEntity("e1", tu)>>)), Omitted>> :
        tu \in TripUpdateFields }

VehicleCalls ==
    { <<Omitted, Omitted, BufferArg(Good(<<VehicleEntity("e1", v)>>))>> :
        v \in VehicleFields }

NextRealtimeFields ==
    \/ \E info \in TripUpdateCalls : UpdateRealtime(info)
    \/ \E info \in VehicleCalls : UpdateRealtime(info)
    \/ GetRealtimeTripUpdates
    \/ GetRealtimeVehiclePositions

SpecRealtimeFields == InitPoolSpec /\ [][NextRealtimeFields]_vars

-----------------------------------------------------------------------------
(* Properties of the realtime calls *)

\* an UpdateRealtime call that was given its three arguments
Updated == Len(rt_args) = 3 /\ ~rt_raised

\* the buffers of an argument, in the order they are handed to the decoder
BuffersOf(arg) ==
    IF arg.kind = "buffer" THEN <<arg.buf>>
    ELSE IF arg.kind = "array"
    THEN LET given == SelectSeq(arg.elems, LAMBDA e : e.is_buffer)
         IN  [i \in 1..Len(given) |-> given[i].buf]
    ELSE <<>>

SentBuffers == BuffersOf(rt_args[1]) \o BuffersOf(rt_args[2]) \o BuffersOf(rt_args[3])

\* the entities of the last call, in the order they are on the wire
SentEntities == Concat([i \in 1..Len(SentBuffers) |-> SentBuffers[i].entities])

SentTripUpdates == SelectSeq(SentEntities, LAMBDA e : e.has_trip_update)
SentVehicles == SelectSeq(SentEntities, LAMBDA e : e.has_vehicle)
SentAlerts == SelectSeq(SentEntities, LAMBDA e : e.has_alert)

SentIds(entities) == [i \in 1..Len(entities) |-> entities[i].id.value]
HeldIds(records) == [i \in 1..Len(records) |-> records[i].update_id]

C16_WitnessReplaced ==
    /\ Updated
    /\ rt_held > 0
    /\ HeldIds(realtime_trip_updates) = <<"tu1">>
    /\ HeldIds(realtime_vehicle_positions) = <<"vp1">>

\* C17: after an update_realtime call, the collection of a category whose
\* input was omitted is empty, whatever the buffers of the other categories
\* hold.
C17_OmittedCategoryEmpty ==
    Updated =>
        /\ rt_args[1].kind = "undefined" => realtime_alerts = <<>>
        /\ rt_args[2].kind = "undefined" => realtime_trip_updates = <<>>
        /\ rt_args[3].kind = "undefined" => realtime_vehicle_positions = <<>>

\* the same for a call that leaves arguments out altogether
C17_OmittedArgumentEmpty ==
    (rt_returned.of = "UpdateRealtime" /\ Len(rt_args) < 3) =>
        /\ realtime_alerts = <<>>
        /\ realtime_trip_updates = <<>>
        /\ realtime_vehicle_positions = <<>>

SomeBufferMalformed == \E i \in 1..Len(SentBuffers) : SentBuffers[i].malformed

Holds(records, id) == \E i \in 1..Len(records) : records[i].update_id = id

\* C18: when a buffer of a call is malformed, the call still returns
\* normally and the entities of all its other buffers, in front of the
\* malformed one and behind it, are in the collections.
C18_MalformedBufferAlone ==
    (Len(rt_args) = 3 /\ SomeBufferMalformed) =>
        /\ ~rt_raised
        /\ \A i \in 1..Len(SentBuffers) : \A k \in 1..Len(SentBuffers[i].entities) :
               LET e == SentBuffers[i].entities[k]
               IN  /\ e.has_trip_update => Holds(realtime_trip_updates, e.id.value)
                   /\ e.has_vehicle => Holds(realtime_vehicle_positions, e.id.value)
                   /\ e.has_alert => Holds(realtime_alerts, e.id.value)

\* the trip update array holds a good buffer, a malformed one and a good one
C18_Witness ==
    /\ Updated
    /\ rt_args[2].kind = "array"
    /\ Len(rt_args[2].elems) = 3
    /\ rt_args[2].elems[2].is_buffer
    /\ rt_args[2].elems[2].buf.malformed
    /\ Holds(realtime_trip_updates, "tu1")
    /\ Holds(realtime_trip_updates, "tu2")
    /\ rt_returned.of = "GetRealtimeTripUpdates"

OnlyTime(event) == event.has_time /\ ~event.has_delay /\ ~event.has_uncertainty

\* what GetRealtimeTripUpdates returned for the collection as it is now
TripUpdatesExposed == rt_returned.of = "GetRealtimeTripUpdates"
VehiclesExposed == rt_returned.of = "GetRealtimeVehiclePositions"

\* one StopTimeEvent against the three fields of the record (r_) and of the
\* returned object (x_)
EventAsClaimed(has_event, event, r_delay, r_time, r_uncertainty,
               x_delay, x_time, x_uncertainty) ==
    /\ (has_event /\ OnlyTime(event)) =>
           /\ r_time = event.time
           /\ TripUpdatesExposed => x_delay.is_null /\ x_uncertainty.is_null
    /\ ~has_event =>
           /\ r_delay # 0 /\ r_time # 0 /\ r_uncertainty # 0
           /\ TripUpdatesExposed => x_delay.is_null /\ x_time.is_null /\ x_uncertainty.is_null
    /\ (has_event /\ event.has_delay /\ event.delay = 0) =>
           /\ r_delay = 0
           /\ TripUpdatesExposed => ~x_delay.is_null /\ x_delay.value = 0
    /\ (has_event /\ event.has_time /\ event.time = 0) =>
           /\ r_time = 0
           /\ TripUpdatesExposed => ~x_time.is_null /\ x_time.value = 0
    /\ (has_event /\ event.has_uncertainty /\ event.uncertainty = 0) =>
           /\ r_uncertainty = 0
           /\ TripUpdatesExposed => ~x_uncertainty.is_null /\ x_uncertainty.value = 0

\* C19: a stop-time update whose arrival has only time set has that time and
\* no delay and no uncertainty; without an arrival it has none of the three;
\* in both cases "no value" differs from a field that is present with value
\* zero.  The same for departure.
C19_StopTimeEventPresence ==
    Updated =>
        \A k \in 1..Len(SentTripUpdates) :
        \A j \in 1..Len(SentTripUpdates[k].trip_update.stop_time_update) :
            LET w == SentTripUpdates[k].trip_update.stop_time_update[j]
                r == realtime_trip_updates[k].stop_time_updates[j]
                x == IF TripUpdatesExposed
                     THEN rt_returned.value[k].stop_time_updates[j]
                     ELSE exposed_stop_time_update(r)
            IN  /\ EventAsClaimed(w.has_arrival, w.arrival,
                                  r.arrival_delay, r.arrival_time, r.arrival_uncertainty,
                                  x.arrival_delay, x.arrival_time, x.arrival_uncertainty)
                /\ EventAsClaimed(w.has_departure, w.departure,
                                  r.departure_delay, r.departure_time,
                                  r.departure_uncertainty,
                                  x.departure_delay, x.departure_time,
                                  x.departure_uncertainty)

\* returned: an arrival with only time 1000, and no departure
C19_Witness ==
    /\ Updated
    /\ TripUpdatesExposed
    /\ Len(rt_returned.value) = 1
    /\ Len(rt_returned.value[1].stop_time_updates) = 1
    /\ LET w == SentTripUpdates[1].trip_update.stop_time_update[1]
           x == rt_returned.value[1].stop_time_updates[1]
       IN  /\ w.has_arrival /\ OnlyTime(w.arrival) /\ w.arrival.time = 1000
           /\ ~w.has_departure
           /\ x.arrival_time = Exposed(TRUE, 1000)
           /\ x.arrival_delay.is_null
           /\ x.departure_time.is_null

\* returned: an arrival with delay 0, time 0 and uncertainty 0
C19_WitnessZero ==
    /\ Updated
    /\ TripUpdatesExposed
    /\ Len(rt_returned.value) = 1
    /\ Len(rt_returned.value[1].stop_time_updates) = 1
    /\ LET x == rt_returned.value[1].stop_time_updates[1]
       IN  /\ x.arrival_delay = Exposed(TRUE, 0)
           /\ x.arrival_time = Exposed(TRUE, 0)
           /\ x.arrival_uncertainty = Exposed(TRUE, 0)

\* x is "no value" exactly when the field is not on the wire, and the wire
\* value otherwise
AsOnWire(x, present, value) == x.is_null = ~present /\ (present => x.value = value)

TripAsOnWire(x, w) ==
    /\ AsOnWire(x.direction_id, w.has_direction_id, w.direction_id)
    /\ AsOnWire(x.start_date, w.start_date.present, w.start_date.value)

EventAsOnWire(has_event, event, x_delay, x_time, x_uncertainty) ==
    /\ AsOnWire(x_delay, has_event /\ event.has_delay, event.delay)
    /\ AsOnWire(x_time, has_event /\ event.has_time, event.time)
    /\ AsOnWire(x_uncertainty, has_event /\ event.has_uncertainty, event.uncertainty)

\* C20: every optional field of a returned trip update or vehicle position
\* is "no value" only when the field was not on the wire; a field on the
\* wire with value zero, an empty string or a negative number is returned
\* as that value.
C20_NoValueOnlyWhenAbsent ==
    /\ (Updated /\ TripUpdatesExposed) =>
           \A k \in 1..Len(SentTripUpdates) :
               LET w == SentTripUpdates[k].trip_update
                   x == rt_returned.value[k]
               IN  /\ AsOnWire(x.timestamp, w.has_timestamp, w.timestamp)
                   /\ AsOnWire(x.delay, w.has_delay, w.delay)
                   /\ TripAsOnWire(x.trip, w.trip)
                   /\ \A j \in 1..Len(w.stop_time_update) :
                          LET ws == w.stop_time_update[j]
                              xs == x.stop_time_updates[j]
                          IN  /\ AsOnWire(xs.stop_sequence, ws.has_stop_sequence,
                                          ws.stop_sequence)
                              /\ AsOnWire(xs.start_date, w.trip.start_date.present,
                                          w.trip.start_date.value)
                              /\ AsOnWire(xs.start_time, w.trip.start_time.present,
                                          w.trip.start_time.value)
                              /\ EventAsOnWire(ws.has_arrival, ws.arrival, xs.arrival_delay,
                                               xs.arrival_time, xs.arrival_uncertainty)
                              /\ EventAsOnWire(ws.has_departure, ws.departure,
                                               xs.departure_delay, xs.departure_time,
                                               xs.departure_uncertainty)
    /\ (Updated /\ VehiclesExposed) =>
           \A k \in 1..Len(SentVehicles) :
               LET w == SentVehicles[k].vehicle
                   x == rt_returned.value[k]
               IN  /\ AsOnWire(x.timestamp, w.has_timestamp, w.timestamp)
                   /\ AsOnWire(x.current_stop_sequence, w.has_current_stop_sequence,
                               w.current_stop_sequence)
                   /\ TripAsOnWire(x.trip, w.trip)
                   /\ AsOnWire(x.position.bearing,
                               w.has_position /\ w.position.has_bearing, w.position.bearing)
                   /\ AsOnWire(x.position.odometer,
                               w.has_position /\ w.position.has_odometer, w.position.odometer)
                   /\ AsOnWire(x.position.speed,
                               w.has_position /\ w.position.has_speed, w.position.speed)

-----------------------------------------------------------------------------
(* Wire order of a trip update, and the translations of an alert *)

MaxStopTimeUpdates == 2
MaxTranslations == 2

T0800 == "08:00:00"

\* trip descriptors with and without trip_id, start_date and start_time
WireTrips ==
    { [TripDescriptor(d, FALSE, 0) EXCEPT !.trip_id = id, !.start_time = t] :
        id \in {NoStr, Str("T1")}, d \in {NoStr, Str("20240108")},
        t \in {NoStr, Str(T0800)} }

PlainStop(seq) == StopTimeUpdate(TRUE, seq, FALSE, NoStopTimeEvent, FALSE, NoStopTimeEvent)

\* a trip update with n stop_time_update fields, and the trip field behind
\* the first trip_at of them
WireTripUpdates ==
    { TripUpdateOnWire(trip, [j \in 1..at[1] |-> PlainStop(j)], at[2]) :
        trip \in WireTrips,
        at \in { <<n, k>> \in (0..MaxStopTimeUpdates) \X (0..MaxStopTimeUpdates) : k <= n } }

WireTripUpdateCalls ==
    { <<Omitted, BufferArg(Good(<<TripUpdateEntity("e1", tu)>>)), Omitted>> :
        tu \in WireTripUpdates }

TranslationTexts == {"", "en", "fr"}

Translations == SeqsUpTo(TranslationTexts, MaxTranslations)

\* alerts with translations in one of the three text fields, or in all
TranslatedAlerts ==
    { Alert(TRUE, t, <<>>, <<>>) : t \in Translations } \cup
    { Alert(TRUE, <<>>, t, <<>>) : t \in Translations } \cup
    { Alert(TRUE, <<>>, <<>>, t) : t \in Translations } \cup
    { Alert(FALSE, t, t, t) : t \in Translations }

TranslatedAlertCalls ==
    { <<BufferArg(Good(<<AlertTextEntity("a1", a)>>)), Omitted, Omitted>> :
        a \in TranslatedAlerts }

NextRealtimeWire ==
    \/ \E info \in WireTripUpdateCalls : UpdateRealtime(info)
    \/ \E info \in TranslatedAlertCalls : UpdateRealtime(info)
    \/ GetRealtimeTripUpdates
    \/ GetRealtimeAlerts

SpecRealtimeWire == InitPoolSpec /\ [][NextRealtimeWire]_vars

\* the j-th stop-time update stored in the k-th trip update
Stored(k, j) == realtime_trip_updates[k].stop_time_updates[j]

\* C21: every stop-time update stored in a trip update carries its parent
\* trip's trip_id, start_date and start_time, wherever the trip descriptor
\* stands among the stop_time_update fields of the encoded message.
C21_CarriesParentTrip ==
    \A k \in 1..Len(realtime_trip_updates) :
        \A j \in 1..Len(realtime_trip_updates[k].stop_time_updates) :
            /\ Stored(k, j).trip_id = realtime_trip_updates[k].trip.trip_id
            /\ Stored(k, j).start_date = realtime_trip_updates[k].trip.start_date
            /\ Stored(k, j).start_time = realtime_trip_updates[k].trip.start_time

\* the part that lines 217-221 restore: the trip_id
C21_CarriesParentTripId ==
    \A k \in 1..Len(realtime_trip_updates) :
        \A j \in 1..Len(realtime_trip_updates[k].stop_time_updates) :
            Stored(k, j).trip_id = realtime_trip_updates[k].trip.trip_id

\* a stop_time_update decoded in front of the trip field has the trip_id
\* of its parent
C21_WitnessTripId ==
    /\ Updated
    /\ Len(SentTripUpdates) = 1
    /\ SentTripUpdates[1].trip_update.trip_at = 1
    /\ Len(realtime_trip_updates) = 1
    /\ Len(realtime_trip_updates[1].stop_time_updates) = 2
    /\ Stored(1, 1).trip_id = "T1"

FirstOrEmpty(translations) == IF translations = <<>> THEN "" ELSE Head(translations)

\* C22: each text field of a stored alert (header_text, description_text,
\* url) holds the text of the first translation on the wire, whatever the
\* texts are, an empty first text included; later translations are dropped.
C22_FirstTranslationKept ==
    (Updated /\ Len(SentAlerts) = Len(realtime_alerts)) =>
        \A k \in 1..Len(realtime_alerts) :
            /\ realtime_alerts[k].header_text = FirstOrEmpty(SentAlerts[k].alert.header_text)
            /\ realtime_alerts[k].description_text =
                   FirstOrEmpty(SentAlerts[k].alert.description_text)
            /\ realtime_alerts[k].url = FirstOrEmpty(SentAlerts[k].alert.url)

NonEmpty(translations) == SelectSeq(translations, LAMBDA t : t # "")

\* what the decoder keeps: the first translation whose text is not empty
C22_FirstNonEmptyKept ==
    (Updated /\ Len(SentAlerts) = Len(realtime_alerts)) =>
        \A k \in 1..Len(realtime_alerts) :
            /\ realtime_alerts[k].header_text =
                   FirstOrEmpty(NonEmpty(SentAlerts[k].alert.header_text))
            /\ realtime_alerts[k].description_text =
                   FirstOrEmpty(NonEmpty(SentAlerts[k].alert.description_text))
            /\ realtime_alerts[k].url = FirstOrEmpty(NonEmpty(SentAlerts[k].alert.url))

-----------------------------------------------------------------------------
(* Loads of archives that hold several files *)

R1x == [route_id |-> "R1", route_long_name |-> "x"]
R1y == [route_id |-> "R1", route_long_name |-> "y"]
S1Monday == [service_id |-> "S1", monday |-> TRUE]
T1P1 == [trip_id |-> "T1", stop_sequence |-> 1, stop_id |-> "P1"]

\* the first n lines of a file; an archive does not hold a file of 0 lines
RoutesContent(n) == [i \in 1..n |-> IF i = 1 THEN R1x ELSE R1y]
CalendarContent(n) == [i \in 1..n |-> S1Monday]
StopTimesContent(n) == [i \in 1..n |-> [T1P1 EXCEPT !.stop_sequence = i]]

MaxRoutes == 2
MaxCalendars == 2
MaxStopTimes == 2

WithFile(files, file, lines) == IF lines = <<>> THEN files ELSE MapPut(files, file, lines)

\* the archive with r lines of routes.txt, c of calendar.txt and st of
\* stop_times.txt
Archive(r, c, st) ==
    [ok |-> TRUE,
     files |-> WithFile(WithFile(WithFile(EmptyMap, "routes.txt", RoutesContent(r)),
                                 "calendar.txt", CalendarContent(c)),
                        "stop_times.txt", StopTimesContent(st))]

\* one feed, or two feeds of which either can be one that cannot be opened
FeedList(a, b, shape) ==
    CASE shape = 1 -> <<a>>
      [] shape = 2 -> <<a, BadArchive>>
      [] shape = 3 -> <<BadArchive, a>>
      [] shape = 4 -> <<a, b>>
      [] shape = 5 -> <<b, a>>

NextLoad ==
    \/ /\ lpc = "idle"
       /\ \E r \in 1..MaxRoutes : \E c \in 0..MaxCalendars : \E st \in 0..MaxStopTimes :
          \E o \in 0..MaxStopTimes : \E shape \in 1..5 :
          \E ids \in FeedIdLists : \E strategy \in MergeStrategies :
              LoadFeeds(FeedList(Archive(r, c, st), Archive(1, 0, o), shape), ids, strategy)
    \/ BeginFeed
    \/ RoutesTask
    \/ CalendarTask
    \/ LaunchChunks
    \/ \E k \in 1..MaxHardwareThreads : ChunkStep(k)
    \/ MergeStopTimes
    \/ JoinFeed
    \/ Finalize

SpecLoad == InitPoolSpec /\ [][NextLoad]_vars

\* the threads of std::async and the thread in load_feeds keep running
FairSpecLoad == SpecLoad /\ WF_vars(NextLoad)

-----------------------------------------------------------------------------
(* Properties of load_feeds as a whole *)

SomeTaskThrew == \E f \in DOMAIN tasks : tasks[f].state = "threw"

TaskFinished(f) == tasks[f].state \in {"done", "threw"}

WorkersFinished == \A k \in 1..Len(chunks) : chunks[k].next > Len(chunks[k].lines)

\* load_feeds has ended with an exception: the error has a text, the merge
\* strategy is STRICT, and the sort and the index build were not run
FailedLoad ==
    lpc = "failed" =>
        /\ load_error # ""
        /\ merge_strategy = STRICT
        /\ stop_times = <<>>
        /\ stop_times_by_stop_id = EmptyMap

\* once a task has thrown, the feed loop is not continued and the finalize
\* step is not taken; the step that leaves load_feeds is taken when every
\* task of the feed and every range worker has finished, and nothing
\* follows it
AbortingStep ==
    /\ SomeTaskThrew =>
           /\ feed_idx' = feed_idx
           /\ lpc' \notin {"next_feed", "done"}
           /\ stop_times' = stop_times
           /\ stop_times_by_stop_id' = stop_times_by_stop_id
    /\ lpc' = "failed" =>
           /\ lpc = "join"
           /\ SomeTaskThrew
           /\ \A f \in DOMAIN tasks : TaskFinished(f)
           /\ WorkersFinished
    /\ lpc # "failed"

-----------------------------------------------------------------------------
(* Two loads of the same feeds *)

\* a stop_times row as its caller reads it: the ids resolved by the pool
RowAsStrings(st) ==
    [trip_id |-> get(st.trip_id), stop_sequence |-> st.stop_sequence,
     stop_id |-> get(st.stop_id)]

RowsAsStrings == [i \in 1..Len(stop_times) |-> RowAsStrings(stop_times[i])]

\* the index with the stop ids resolved by the pool
IndexAsStrings ==
    [s \in {get(id) : id \in DOMAIN stop_times_by_stop_id} |->
        stop_times_by_stop_id[get_id(s)]]

\* load_feeds has returned; its caller keeps the arguments and what the
\* dataset holds, and is free to call load_feeds again
LoadReturns ==
    /\ lpc = "done"
    /\ loaded_before = <<>>
    /\ loaded_before' = Append(loaded_before,
           [zip_buffers |-> zip_buffers, feed_ids |-> feed_ids,
            merge_strategy |-> merge_strategy,
            stop_times |-> RowsAsStrings, index |-> IndexAsStrings])
    /\ lpc' = "idle"
    /\ UNCHANGED <<poolVars, threadVars, feed_idx, current_feed_id, tasks, load_error, argVars,
                   tableVars, stopTimeVars, trips, realtimeVars, queryVars, rtCallVars,
                   applied>>

\* archives whose stop_times.txt has MaxLines lines
ReloadArchives ==
    {[ok |-> TRUE, files |-> ("stop_times.txt" :> c)] : c \in [1..MaxLines -> StopTimeLines]}

\* loads of one feed on a machine with three hardware threads, every line 8
\* bytes long: one line per range worker
NextReload ==
    \/ /\ lpc = "idle"
       /\ \E a \in ReloadArchives : \E strategy \in MergeStrategies :
              LoadFeeds(<<a>>, <<>>, strategy)
    \/ BeginFeed
    \/ LaunchChunksWith({3}, {8})
    \/ \E k \in 1..MaxHardwareThreads : ChunkStep(k)
    \/ MergeStopTimes
    \/ JoinFeed
    \/ Finalize
    \/ LoadReturns

SpecReload == InitPoolSpec /\ [][NextReload]_vars

SameCall(e) ==
    /\ e.zip_buffers = zip_buffers
    /\ e.feed_ids = feed_ids
    /\ e.merge_strategy = merge_strategy

\* C24: two loads of the same feeds with the same merge strategy end with
\* the same sequence of stop-time rows (trip_id string, stop_sequence,
\* stop_id string) and the same index position lists, however the range
\* workers were scheduled.
C24_SameResultEveryScheduling ==
    lpc = "done" =>
        \A i \in 1..Len(loaded_before) :
            SameCall(loaded_before[i]) =>
                /\ loaded_before[i].stop_times = RowsAsStrings
                /\ loaded_before[i].index = IndexAsStrings

\* what does not depend on the scheduling: which rows the array holds
C24_SameRowsEveryScheduling ==
    lpc = "done" =>
        \A i \in 1..Len(loaded_before) :
            SameCall(loaded_before[i]) => SameRows(loaded_before[i].stop_times, RowsAsStrings)

-----------------------------------------------------------------------------
(* A feed whose archive cannot be opened *)

\* the load is of two feeds, one of which cannot be opened
OneUnreadable ==
    /\ Len(zip_buffers) = 2
    /\ \E k \in 1..2 : ~zip_buffers[k].ok
    /\ \E k \in 1..2 : zip_buffers[k].ok

ReadableFeed == CHOOSE k \in 1..2 : zip_buffers[k].ok

FileLines(zip, file) == IF file \in DOMAIN zip.files THEN zip.files[file] ELSE <<>>

\* the table a parser leaves when it reads the one file into an empty table
RecordsOf(parsed, file) ==
    IF file \in DOMAIN zip_buffers[ReadableFeed].files
    THEN parsed.table
    ELSE EmptyMap

\* load_feeds has returned from a load with one unreadable archive: no
\* error, and the tables and the stop-time array hold what the files of the
\* other archive hold, under that feed's id
ReadableFeedLoaded ==
    (lpc = "done" /\ OneUnreadable) =>
        LET zip == zip_buffers[ReadableFeed]
            id == FeedIdOf(ReadableFeed)
        IN  /\ load_error = ""
            /\ agencies = EmptyMap
            /\ calendar_dates = EmptyMap
            /\ routes = RecordsOf(parse_routes(EmptyMap, FileLines(zip, "routes.txt"),
                                               merge_strategy, id), "routes.txt")
            /\ calendars = RecordsOf(parse_calendar(EmptyMap, FileLines(zip, "calendar.txt"),
                                                    merge_strategy, id), "calendar.txt")
            /\ SameRows(RowsAsStrings, FileLines(zip, "stop_times.txt"))

\* the archive cannot be opened and is not what ends the load
NotEndedByUnreadable ==
    (OneUnreadable /\ lpc = "failed") => load_error # "Failed to init zip reader"

AtUnreadable ==
    /\ lpc = "next_feed"
    /\ feed_idx < Len(zip_buffers)
    /\ ~zip_buffers[feed_idx + 1].ok

\* the step at an archive that cannot be opened: on to the next feed, with
\* no task started, no error kept and no table touched
SkippingStep ==
    AtUnreadable =>
        /\ lpc' = "next_feed"
        /\ feed_idx' = feed_idx + 1
        /\ tasks' = EmptyMap
        /\ load_error' = load_error
        /\ UNCHANGED <<tableVars, stopTimeVars>>

\* C25: when the archive of one feed of a two-feed load cannot be opened,
\* that feed is skipped and the load goes on with the other feed: the
\* dataset load_feeds ends with holds exactly the records of the readable
\* feed, and unless the merge strategy is STRICT (under which the readable
\* feed's own duplicates end the load) load_feeds completes without error.
C25_UnreadableFeedSkipped ==
    /\ []ReadableFeedLoaded
    /\ []NotEndedByUnreadable
    /\ [][SkippingStep]_vars
    /\ (OneUnreadable /\ merge_strategy # STRICT /\ lpc = "next_feed") ~> (lpc = "done")

\* the tables of the finished load hold the records of the readable feed,
\* and so does the stop-time array, next to what a range worker may have
\* read past the buffer
ReadableTablesLoaded ==
    (lpc = "done" /\ OneUnreadable) =>
        LET zip == zip_buffers[ReadableFeed]
            id == FeedIdOf(ReadableFeed)
            lines == FileLines(zip, "stop_times.txt")
        IN  /\ load_error = ""
            /\ routes = RecordsOf(parse_routes(EmptyMap, FileLines(zip, "routes.txt"),
                                               merge_strategy, id), "routes.txt")
            /\ calendars = RecordsOf(parse_calendar(EmptyMap, FileLines(zip, "calendar.txt"),
                                                    merge_strategy, id), "calendar.txt")
            /\ \A i \in 1..Len(lines) : Count(RowsAsStrings, lines[i]) = Count(lines, lines[i])
            /\ \A i \in 1..Len(stop_times) :
                   \/ Count(lines, RowsAsStrings[i]) > 0
                   \/ RowsAsStrings[i] = GarbageLine

\* what holds of the skip itself: the archive that cannot be opened starts
\* no task, changes no table and never ends the load, and the load goes on
\* to its end or to the crash of a range loop
C25_UnreadableArchiveSkipped ==
    /\ []ReadableTablesLoaded
    /\ []NotEndedByUnreadable
    /\ [][SkippingStep]_vars
    /\ (OneUnreadable /\ merge_strategy # STRICT /\ lpc = "next_feed")
           ~> (lpc \in {"done", "crashed"})

\* the load of a readable feed and an unreadable one has ended with a row
\* that is in no file
C25_WitnessGarbage ==
    /\ lpc = "done"
    /\ OneUnreadable
    /\ \E i \in 1..Len(stop_times) : RowsAsStrings[i] = GarbageLine

\* the first archive could not be opened; the second was loaded under the
\* id "1" with its two files
C25_Witness ==
    /\ lpc = "done"
    /\ OneUnreadable
    /\ ReadableFeed = 2
    /\ load_error = ""
    /\ "1" \in DOMAIN routes
    /\ Len(stop_times) = 1
    /\ SameRows(RowsAsStrings, FileLines(zip_buffers[2], "stop_times.txt"))

\* the second archive could not be opened
C25_WitnessLast ==
    /\ lpc = "done"
    /\ OneUnreadable
    /\ ReadableFeed = 1
    /\ "0" \in DOMAIN calendars
    /\ "1" \in DOMAIN str_to_id

-----------------------------------------------------------------------------
(* One feed after another *)

\* the tasks that exist are those of the feed the loop is at, one per file
\* of its archive, and they exist only between their launch and the join
TasksOfCurrentFeed ==
    (tasks # EmptyMap \/ chunks # <<>>) =>
        /\ lpc \in {"join", "crashed"}
        /\ feed_idx \in 1..Len(zip_buffers)
        /\ zip_buffers[feed_idx].ok
        /\ DOMAIN tasks = DOMAIN zip_buffers[feed_idx].files

\* nothing of the load is running
Quiet == tasks = EmptyMap /\ chunks = <<>>

SequentialStep ==
    \* the iteration of a feed is left when each of its tasks and each range
    \* worker has finished
    /\ (lpc = "join" /\ lpc' \in {"next_feed", "failed"}) =>
           /\ \A f \in DOMAIN tasks : TaskFinished(f)
           /\ WorkersFinished
           /\ feed_idx' = feed_idx
    \* the tasks of the next feed are started when nothing is running
    /\ (lpc # "idle" /\ feed_idx' # feed_idx) =>
           /\ lpc = "next_feed"
           /\ Quiet
           /\ feed_idx' = feed_idx + 1
    \* the tables and the merged rows change in the iteration of a feed only
    /\ (lpc # "idle" /\ <<tableVars, merged_stop_times>>' # <<tableVars, merged_stop_times>>) =>
           /\ lpc = "join"
           /\ lpc' = "join"
    \* the sort and the index build follow the iteration of the last feed
    /\ (lpc # "idle" /\ (lpc' = "done" \/ <<stop_times, stop_times_by_stop_id>>'
                                          # <<stop_times, stop_times_by_stop_id>>)) =>
           /\ lpc = "next_feed"
           /\ feed_idx = Len(zip_buffers)
           /\ Quiet
           /\ UNCHANGED <<tableVars, merged_stop_times>>

\* C26: feeds are processed one after another: every per-file task of feed k
\* and the stop_times task with all its range workers has finished before
\* the loop goes on to feed k+1, and the finalize step is taken only after
\* the tasks of the last feed have finished.
C26_FeedsSequential == []TasksOfCurrentFeed /\ [][SequentialStep]_vars

\* the second feed is being parsed, by a range worker among others, after
\* the first has put its records in the tables
C26_Witness ==
    /\ lpc = "join"
    /\ feed_idx = 2
    /\ zip_buffers[1].ok
    /\ routes # EmptyMap
    /\ merged_stop_times # EmptyMap
    /\ \E f \in DOMAIN tasks : tasks[f].state = "running"
    /\ ~WorkersFinished

\* the finalize step was taken after two readable feeds
C26_WitnessFinalize ==
    /\ lpc = "done"
    /\ feed_idx = 2
    /\ zip_buffers[1].ok /\ zip_buffers[2].ok
    /\ stop_times # <<>>

-----------------------------------------------------------------------------
(* The range loop of the stop_times task on its own *)

MaxRangeLines == 4

\* lengths in bytes of a data line, its line break included: an empty line,
\* a short row and a long one
RangeLineLens == {1, 8, 30}

NoRanges == [ranges |-> <<>>, overread |-> "none"]

\* the data lines of a stop_times.txt after its header, by their lengths,
\* and what std::thread::hardware_concurrency() gave, capped at 8
RangeCalls ==
    {[lens |-> lens, thread_count |-> n, outcome |-> "called", plan |-> NoRanges] :
        lens \in SeqsUpTo(RangeLineLens, MaxRangeLines) \ {<<>>},
        n \in 1..MaxHardwareThreads}

InitRanges == InitPool /\ InitThreads /\ InitLoad /\ InitAddon /\ applied \in RangeCalls

\* The loop over i runs to its end.  A memchr that read past the buffer has
\* either found a byte 10 there, or has ended the process.
CutRanges ==
    /\ applied.outcome = "called"
    /\ LET plan == chunk_ranges(applied.lens, applied.thread_count)
       IN  \/ applied' = [applied EXCEPT !.outcome = "returned", !.plan = plan]
           \/ /\ plan.overread # "none"
              /\ applied' = [applied EXCEPT !.outcome = "crashed"]
    /\ UNCHANGED <<poolVars, threadVars, loadVars, trips, realtimeVars, queryVars, rtCallVars,
                   loaded_before>>

NextRanges == CutRanges

SpecRanges == InitRanges /\ [][NextRanges]_vars

\* content_size - start_pos
DataSize(lens) == LineEnds(lens)[Len(lens)]

Contiguous(ranges) ==
    /\ ranges # <<>>
    /\ ranges[1][1] = 0
    /\ \A k \in 1..Len(ranges) : ranges[k][1] <= ranges[k][2]
    /\ \A k \in 1..(Len(ranges) - 1) : ranges[k + 1][1] = ranges[k][2]

InsideBuffer(ranges, lens) == \A k \in 1..Len(ranges) : ranges[k][2] <= DataSize(lens)

CoverData(ranges, lens) == ranges[Len(ranges)][2] = DataSize(lens)

EndAfterLineBreak(ranges, lens) ==
    \A k \in 1..(Len(ranges) - 1) : ranges[k][2] \in Range(LineEnds(lens))

\* C27: for every content with at least one data byte after the header and
\* every worker count in 1..8, the loop runs to its end and the ranges it
\* hands to the workers are contiguous, do not overlap, lie inside the
\* buffer, together cover the bytes after the header, and each but the last
\* ends right after a line break.
C27_RangesInsideBuffer ==
    /\ applied.outcome # "crashed"
    /\ applied.outcome = "returned" =>
           /\ Contiguous(applied.plan.ranges)
           /\ InsideBuffer(applied.plan.ranges, applied.lens)
           /\ CoverData(applied.plan.ranges, applied.lens)
           /\ EndAfterLineBreak(applied.plan.ranges, applied.lens)

\* what holds of the loop: the ranges are contiguous and start at the first
\* data byte; and when no nominal end of a range but the last lies past the
\* buffer, they lie inside the buffer, cover the data and end after line
\* breaks
C27_RangesWhenNoOverread ==
    applied.outcome = "returned" =>
        /\ Contiguous(applied.plan.ranges)
        /\ applied.plan.overread = "none" =>
               /\ InsideBuffer(applied.plan.ranges, applied.lens)
               /\ CoverData(applied.plan.ranges, applied.lens)
               /\ EndAfterLineBreak(applied.plan.ranges, applied.lens)

\* a long line followed by a short one, cut for three threads: the second
\* range was given an end past the buffer
C27_WitnessPastBuffer ==
    /\ applied.outcome = "returned"
    /\ applied.lens = <<30, 8>>
    /\ applied.thread_count = 3
    /\ applied.plan.overread = "used"
    /\ ~InsideBuffer(applied.plan.ranges, applied.lens)

-----------------------------------------------------------------------------
(* The two time-of-day parsers on their own *)

Colon == <<58>>

\* what can stand where the hours, the minutes and the seconds are expected
HourTexts ==
    {<<>>, <<97>>, Digits(<<0>>), Digits(<<7>>), Digits(<<2, 4>>), Digits(<<0, 0, 7>>),
     Digits(<<5, 9, 6, 5, 2, 3>>), Digits(<<5, 9, 6, 5, 2, 4>>),
     Digits(<<1, 1, 9, 3, 0, 4, 6>>), Digits(<<2, 1, 4, 7, 4, 8, 3, 6, 4, 7>>)}

MinuteTexts ==
    {<<>>, <<97>>, Digits(<<0, 0>>), Digits(<<2, 8>>), Digits(<<5, 9>>), Digits(<<6, 0>>),
     Digits(<<5>>), Digits(<<4, 2, 9, 4, 9, 6, 7, 2, 9, 6>>)}

SecondTexts ==
    {<<>>, <<97>>, Digits(<<0, 0>>), Digits(<<1, 5>>), Digits(<<5, 9>>), Digits(<<6, 0>>),
     Digits(<<9, 9>>)}

\* a colon, nothing, or another character
Separators == {Colon, <<>>, <<120>>}
LeadingTexts == {<<>>, <<32>>}
TrailingTexts == {<<>>, <<120>>, <<0>>}

TimeCalls ==
    {[lead |-> l, hours |-> h, sep1 |-> c1, minutes |-> m, sep2 |-> c2, seconds |-> s,
      trail |-> t, outcome |-> "called", result |-> 0, view_result |-> 0,
      overflow |-> FALSE] :
        l \in LeadingTexts, h \in HourTexts, c1 \in Separators, m \in MinuteTexts,
        c2 \in Separators, s \in SecondTexts, t \in TrailingTexts}

\* the characters handed to the parsers
TextOf(c) == c.lead \o c.hours \o c.sep1 \o c.minutes \o c.sep2 \o c.seconds \o c.trail

InitTimes == InitPool /\ InitThreads /\ InitLoad /\ InitAddon /\ applied \in TimeCalls

\* Both parsers are called on the same characters.  Where a signed overflow
\* happened, a build whose int arithmetic wraps around returns the wrapped
\* value and a build that traps on overflow ends the process.
ParseTime ==
    /\ applied.outcome = "called"
    /\ LET a == parse_time_seconds_run(TextOf(applied))
           b == parse_time_seconds_view_run(TextOf(applied), Len(TextOf(applied)))
       IN  \/ applied' = [applied EXCEPT !.outcome = "returned", !.result = a.value,
                                         !.view_result = b.value,
                                         !.overflow = a.overflow \/ b.overflow]
           \/ /\ a.overflow \/ b.overflow
              /\ applied' = [applied EXCEPT !.outcome = "trapped", !.overflow = TRUE]
    /\ UNCHANGED <<poolVars, threadVars, loadVars, trips, realtimeVars, queryVars, rtCallVars,
                   loaded_before>>

NextTimes == ParseTime

SpecTimes == InitTimes /\ [][NextTimes]_vars

AllDigits(text) == text # <<>> /\ \A i \in 1..Len(text) : IsDigit(text[i])

\* two digits that make a number in 0..59
TwoDigitsTo59(text) == Len(text) = 2 /\ AllDigits(text) /\ text[1] <= 53

\* digits that make a number above 59
RECURSIVE Above59(_)
Above59(text) ==
    /\ AllDigits(text)
    /\ IF Head(text) = 48 /\ Len(text) > 1 THEN Above59(Tail(text))
       ELSE Len(text) > 2 \/ (Len(text) = 2 /\ text[1] >= 54)

\* H:MM:SS
WellFormed(c) ==
    /\ c.lead = <<>> /\ c.trail = <<>>
    /\ AllDigits(c.hours)
    /\ c.sep1 = Colon /\ c.sep2 = Colon
    /\ TwoDigitsTo59(c.minutes)
    /\ TwoDigitsTo59(c.seconds)

\* empty, a colon missing, a character that is not a digit where a digit is
\* required, or minutes or seconds above 59
Malformed(c) ==
    \/ TextOf(c) = <<>>
    \/ c.sep1 # Colon
    \/ c.sep2 # Colon
    \/ ~AllDigits(c.hours)
    \/ ~AllDigits(c.minutes)
    \/ ~AllDigits(c.seconds)
    \/ Above59(c.minutes)
    \/ Above59(c.seconds)

\* t is h * 3600 + m * 60 + s of the numbers the three texts write
IsSecondsOf(t, c) ==
    /\ t >= 0
    /\ t \div 3600 = LeadingValue(c.hours, 0)
    /\ t % 3600 = LeadingValue(c.minutes, 0) * 60 + LeadingValue(c.seconds, 0)

TimeParsed ==
    /\ WellFormed(applied) =>
           /\ IsSecondsOf(applied.result, applied)
           /\ applied.result # -1
    /\ Malformed(applied) => applied.result = -1
    /\ applied.view_result = applied.result

\* C28: parse_time_seconds and parse_time_seconds_view return
\* h * 3600 + m * 60 + s for H:MM:SS with any number of hour digits and
\* minutes and seconds in 0..59, and -1 for every malformed input; both
\* return the same for the same characters, and the result of a successful
\* parse is never -1.
C28_TimeParsed ==
    /\ applied.outcome # "trapped"
    /\ applied.outcome = "returned" => TimeParsed

\* what holds: all of it when no signed overflow happened, and the two
\* parsers agree in any case
C28_TimeParsedWithoutOverflow ==
    applied.outcome = "returned" =>
        /\ applied.view_result = applied.result
        /\ ~applied.overflow => TimeParsed

\* 1193046:28:15 is 2^32 - 1 seconds: where int wraps around both parsers
\* return -1, the marker
C28_WitnessMarker ==
    /\ applied.outcome = "returned"
    /\ WellFormed(applied)
    /\ applied.hours = Digits(<<1, 1, 9, 3, 0, 4, 6>>)
    /\ applied.minutes = Digits(<<2, 8>>)
    /\ applied.seconds = Digits(<<1, 5>>)
    /\ applied.result = -1
    /\ applied.view_result = -1

\* a time after midnight of the next day parsed to its seconds
C28_WitnessParsed ==
    /\ applied.outcome = "returned"
    /\ WellFormed(applied)
    /\ applied.hours = Digits(<<2, 4>>)
    /\ applied.result = 24 * 3600 + 28 * 60 + 15
    /\ ~applied.overflow

-----------------------------------------------------------------------------
(* Queries by stop_id *)

OnlyStopId(config) ==
    /\ config.stop_id.kind = "string"
    /\ config.trip_id.kind = "undefined"
    /\ config.start_time.kind = "undefined"
    /\ config.end_time.kind = "undefined"
    /\ config.date.kind = "undefined"

StrictlyAscending(positions) ==
    \A i, j \in 1..Len(positions) : i < j => positions[i] < positions[j]

\* each list of the index holds, once each and in ascending order, the
\* positions of the rows with its stop_id, and no other
IndexOfStops ==
    /\ \A sid \in DOMAIN stop_times_by_stop_id :
           LET positions == stop_times_by_stop_id[sid]
           IN  /\ StrictlyAscending(positions)
               /\ \A k \in 1..Len(positions) :
                      /\ positions[k] \in 0..(Len(stop_times) - 1)
                      /\ RowAt(positions[k]).stop_id = sid
    /\ \A p \in 0..(Len(stop_times) - 1) :
           /\ RowAt(p).stop_id \in DOMAIN stop_times_by_stop_id
           /\ p \in Range(stop_times_by_stop_id[RowAt(p).stop_id])

\* C29: a query that filters by an interned stop_id alone, answered from
\* stop_times_by_stop_id, returns exactly the rows a scan of all of
\* stop_times finds with that stop_id, in ascending position order; every
\* position stored under a stop_id refers to a row with that stop_id, each
\* such position is stored once, and each list is strictly ascending.
C29_StopIndexEqualsScan ==
    /\ IndexOfStops
    /\ (Queried /\ OnlyStopId(q_config[1]) /\ q_config[1].stop_id.str \in DOMAIN str_to_id) =>
           LET S == str_to_id[q_config[1].stop_id.str]
               HasStop(st) == st.stop_id = S
           IN  /\ q_result = Scan(HasStop)
               /\ StrictlyAscending(q_result)
               /\ q_examined = Len(q_result)

\* the stop has two rows with another stop's row between them
C29_Witness ==
    /\ Queried
    /\ OnlyStopId(q_config[1])
    /\ q_config[1].stop_id.str \in DOMAIN str_to_id
    /\ Len(q_result) = 2
    /\ q_result[2] > q_result[1] + 1
    /\ Len(stop_times) > Len(q_result)

-----------------------------------------------------------------------------
(* Loads and realtime updates on the same store *)

\* calls of UpdateRealtime: a feed for each collection, trip updates only,
\* empty arrays, and a call with too few arguments
FrameCalls ==
    { <<BufferArg(Good(<<AlertEntity("a1")>>)), BufferArg(Good(<<TU("tu1")>>)),
        BufferArg(Good(<<VP("vp1")>>))>>,
      <<Omitted, BufferArg(Good(<<TU("tu1")>>)), Omitted>>,
      <<ArrayArg(<<>>), ArrayArg(<<>>), ArrayArg(<<>>)>>,
      <<>> }

\* loads of one feed, or of one feed and an archive that cannot be opened,
\* on a machine with one hardware thread; UpdateRealtime is called from the
\* JavaScript thread at any time, also while the worker thread is loading
NextLoadRealtime ==
    \/ /\ lpc = "idle"
       /\ \E r \in 1..MaxRoutes : \E st \in 0..MaxStopTimes : \E shape \in 1..2 :
          \E strategy \in MergeStrategies :
              LoadFeeds(FeedList(Archive(r, 1, st), Archive(1, 0, 0), shape), <<>>, strategy)
    \/ BeginFeed
    \/ RoutesTask
    \/ CalendarTask
    \/ LaunchChunksWith({1}, {8})
    \/ \E k \in 1..MaxHardwareThreads : ChunkStep(k)
    \/ MergeStopTimes
    \/ JoinFeed
    \/ Finalize
    \/ LoadReturns
    \/ \E call \in FrameCalls : UpdateRealtime(call)

SpecLoadRealtime == InitPoolSpec /\ [][NextLoadRealtime]_vars

RealtimeEmpty ==
    /\ realtime_trip_updates = <<>>
    /\ realtime_vehicle_positions = <<>>
    /\ realtime_alerts = <<>>

\* the static tables, the stop-time array, its index and the string pool
staticVars == <<tableVars, trips, merged_stop_times, stop_times, stop_times_by_stop_id,
                str_to_id, id_to_str>>

FrameStep ==
    IF lpc = "idle" /\ lpc' = "next_feed"
    \* the step that begins a load empties the three collections, together
    \* with everything else
    THEN /\ RealtimeEmpty'
         /\ stop_times' = <<>> /\ stop_times_by_stop_id' = EmptyMap
         /\ str_to_id' = EmptyMap /\ id_to_str' = <<>>
         /\ routes' = EmptyMap /\ calendars' = EmptyMap
    \* any other step that changes a realtime collection leaves the static
    \* part and the position of the load as they are, and the steps of the
    \* load leave the realtime collections as they are
    ELSE \/ UNCHANGED realtimeVars
         \/ UNCHANGED <<staticVars, lpc, feed_idx, tasks, chunks, load_error>>

\* C30: every load_feeds call begins by clearing the whole dataset, the
\* three realtime collections included, whatever an earlier UpdateRealtime
\* had put in them; UpdateRealtime leaves the static tables, stop_times, the
\* stop-id index and the string pool unchanged.
C30_LoadClearsRealtime == [][FrameStep]_vars

\* a load has ended on a store that UpdateRealtime had filled before it:
\* the collections are empty
C30_Witness ==
    /\ lpc = "done"
    /\ stop_times # <<>>
    /\ Updated
    /\ rt_args[2] = BufferArg(Good(<<TU("tu1")>>))
    /\ rt_args[3] = BufferArg(Good(<<VP("vp1")>>))
    /\ RealtimeEmpty

\* UpdateRealtime has filled the collections of a loaded store
C30_WitnessUpdateAfterLoad ==
    /\ lpc = "done"
    /\ stop_times # <<>>
    /\ routes # EmptyMap
    /\ stop_times_by_stop_id # EmptyMap
    /\ realtime_trip_updates # <<>>
    /\ realtime_alerts # <<>>

====
